---- MODULE Spec2Model ----
(***************************************************************************)
(* Multi-provider consensus analysis engine                                *)
(* (scripts/consensus_analyzer.py, class ConsensusAnalyzer).               *)
(*                                                                         *)
(* One ConsensusAnalyzer object is modelled from the entry of              *)
(* _initialize_providers to the return of analyze_article: the provider    *)
(* construction loop, the ThreadPoolExecutor fan-out, the as_completed     *)
(* collection loop and _calculate_consensus.                               *)
(*                                                                         *)
(* Texts are sequences of one-character strings so that str.strip() is     *)
(* computed, not assumed.  A provider response is a Python dict, modelled  *)
(* as the sequence of its items in insertion order (keys pairwise          *)
(* distinct).  Reason texts are opaque to the aggregator (never compared   *)
(* or inspected); the reason a provider p gives for the raw key k is the   *)
(* tag <<p, k>>.                                                           *)
(***************************************************************************)
EXTENDS Integers, Sequences, FiniteSets, TLC

\* ---------------------------------------------------------------- bounds
\* largest number of keys in one provider response
MaxSel == 2

\* ------------------------------------------------------- program constants
SUPPORTED_PROVIDERS == {"gemini", "openai", "claude", "mistral"}

\* self.providers = providers or ['gemini', 'mistral']
DefaultProviders == <<"gemini", "mistral">>

\* ------------------------------------------------------------ input domains
\* identifiers a caller may request: three supported ones, one that the
\* factory knows but the consensus engine does not support, one unknown
RequestNames == {"gemini", "mistral", "openai", "llama", "bogus"}

\* the `providers` arguments of __init__ (<<>> stands for None and for [])
RequestedLists ==
  { <<>>,
    <<"llama">>,
    <<"gemini">>,
    <<"gemini", "gemini">>,
    <<"mistral", "gemini">>,
    <<"bogus", "mistral">>,
    <<"gemini", "llama", "openai">>,
    <<"gemini", "mistral", "openai">>,
    <<"openai", "gemini", "openai">> }

Whitespace == {" ", "\n"}

\* raw sentence keys a provider may return; the first two are equal after trim
RawSentences == { <<"A">>, <<" ", "A", "\n">>, <<"B">> }

\* raw keys for the aggregator on its own, all with inner whitespace: two
\* equal after trim and one that differs from them in case only
AggRawSentences ==
  { <<"A", " ", "b">>, <<" ", "A", " ", "b", "\n">>, <<"a", " ", "b">> }

NoneText == <<"<None>">>
ArticleTexts == { NoneText, <<>>, <<" ">>, <<"\n", " ">>, <<"A">>, <<" ", "A">> }

\* ------------------------------------------------------------------ helpers
Range(s) == { s[i] : i \in 1..Len(s) }

SeqsUpTo(S, n) == UNION { [1..k -> S] : k \in 0..n }

IsInjective(s) == \A i, j \in 1..Len(s) : s[i] = s[j] => i = j

Perms(seq) ==
  { [i \in 1..Len(seq) |-> seq[f[i]]] :
      f \in { g \in [1..Len(seq) -> 1..Len(seq)] : \A a, b \in 1..Len(seq) : g[a] = g[b] => a = b } }

\* str.lstrip() / str.rstrip() / str.strip()
RECURSIVE LStrip(_)
LStrip(s) == IF s = <<>> THEN <<>>
             ELSE IF Head(s) \in Whitespace THEN LStrip(Tail(s)) ELSE s

RECURSIVE RStrip(_)
RStrip(s) == IF s = <<>> THEN <<>>
             ELSE IF s[Len(s)] \in Whitespace THEN RStrip(SubSeq(s, 1, Len(s) - 1))
             ELSE s

Strip(s) == RStrip(LStrip(s))

\* _normalize_sentence
NormalizeSentence_casefold(sentence) ==
  [i \in 1..Len(Strip(sentence)) |->
     IF Strip(sentence)[i] = "a" THEN "A" ELSE Strip(sentence)[i]]

NormalizeSentence(sentence) == Strip(sentence)

\* `not article_text or not article_text.strip()`
IsBlank_emptyOnly(text) == text = NoneText \/ text = <<>>

IsBlank(text) == text = NoneText \/ text = <<>> \/ Strip(text) = <<>>

\* the dicts a provider p may return: up to MaxSel distinct raw keys, in any
\* insertion order, each with p's reason for it
Responses(p) ==
  { [i \in 1..Len(ks) |-> [sentence |-> ks[i], reason |-> <<p, ks[i]>>]] :
      ks \in { s \in SeqsUpTo(RawSentences, MaxSel) : IsInjective(s) } }

AggResponses(p) ==
  { [i \in 1..Len(ks) |-> [sentence |-> ks[i], reason |-> <<p, ks[i]>>]] :
      ks \in { s \in SeqsUpTo(AggRawSentences, MaxSel) : IsInjective(s) } }

\* ------------------------------------------------- _analyze_with_provider
\* result dict of a call whose llm.analyze returned `response`
\*   sentences_dict = response if isinstance(response, dict) else {}
SuccessOutcome(provider_name, isDict, response) ==
  [provider |-> provider_name, success |-> TRUE,
   sentences |-> IF isDict THEN response ELSE <<>>]

\* result dict of a call that raised (the except branch)
FailureOutcome(provider_name) ==
  [provider |-> provider_name, success |-> FALSE, sentences |-> <<>>]

\* ----------------------------------------------------- _calculate_consensus
\* successful_results = [r for r in results if r['success']]
SuccessfulResults_all(results) == results

SuccessfulResults_allOrNothing(results) ==
  IF \E i \in 1..Len(results) : ~results[i].success THEN <<>>
  ELSE results

SuccessfulResults(results) == SelectSeq(results, LAMBDA r : r.success)

\* [r['provider'] for r in successful_results]
ProvidersOf(rs) == [i \in 1..Len(rs) |-> rs[i].provider]

SuccessfulProviders_swapped(results) ==
  ProvidersOf(SelectSeq(results, LAMBDA r : ~r.success))

SuccessfulProviders(results) == ProvidersOf(SuccessfulResults(results))

\* [r['provider'] for r in results if not r['success']]
FailedProviders_all(results) == ProvidersOf(results)

FailedProviders(results) == ProvidersOf(SelectSeq(results, LAMBDA r : ~r.success))

\* data['reasons'][provider] = reason   (dict assignment: overwrite or insert)
SetReason(reasons, provider, reason) ==
  IF \E j \in 1..Len(reasons) : reasons[j].provider = provider
  THEN [j \in 1..Len(reasons) |->
          IF reasons[j].provider = provider
          THEN [provider |-> provider, reason |-> reason] ELSE reasons[j]]
  ELSE Append(reasons, [provider |-> provider, reason |-> reason])

\* sentence_map[normalized]['selected_by'].append(provider)
\* sentence_map[normalized]['reasons'][provider] = reason
\* (defaultdict: a missing key is inserted at the end with empty list and dict)
AddSelection(sentence_map, normalized, provider, reason) ==
  IF \E k \in 1..Len(sentence_map) : sentence_map[k].text = normalized
  THEN [k \in 1..Len(sentence_map) |->
          IF sentence_map[k].text = normalized
          THEN [text |-> normalized,
                selected_by |-> Append(sentence_map[k].selected_by, provider),
                reasons |-> SetReason(sentence_map[k].reasons, provider, reason)]
          ELSE sentence_map[k]]
  ELSE Append(sentence_map,
              [text |-> normalized,
               selected_by |-> <<provider>>,
               reasons |-> <<[provider |-> provider, reason |-> reason]>>])

\* for sentence, reason in sentences.items(): ...
RECURSIVE FoldSentences(_, _, _)
FoldSentences(sentence_map, provider, sentences) ==
  IF sentences = <<>> THEN sentence_map
  ELSE FoldSentences(
         AddSelection(sentence_map, NormalizeSentence(Head(sentences).sentence),
                      provider, Head(sentences).reason),
         provider, Tail(sentences))

\* for result in successful_results: ...
RECURSIVE FoldResults(_, _)
FoldResults(sentence_map, rs) ==
  IF rs = <<>> THEN sentence_map
  ELSE FoldResults(FoldSentences(sentence_map, Head(rs).provider, Head(rs).sentences),
                   Tail(rs))

BuildSentenceMap_firstOnly(successful_results) ==
  FoldResults(<<>>, SubSeq(successful_results, 1, 1))

BuildSentenceMap(successful_results) == FoldResults(<<>>, successful_results)

\* the if / elif / else ladder on total_providers and consensus_score
ConsensusLevel_mediumAtTwo(consensus_score, total_providers) ==
  IF total_providers = 1 THEN "high"
  ELSE IF consensus_score >= 3 THEN "high"
  ELSE IF consensus_score = 2 THEN "medium"
  ELSE "low"

ConsensusLevel(consensus_score, total_providers) ==
  IF total_providers = 1 THEN "high"
  ELSE IF total_providers = 2
       THEN (IF consensus_score = 2 THEN "high" ELSE "low")
       ELSE IF consensus_score >= 3 THEN "high"
       ELSE IF consensus_score = 2 THEN "medium"
       ELSE "low"

\* consensus_sentences.append({...}) for each item of sentence_map
ConsensusSentences(sentence_map, total_providers) ==
  [k \in 1..Len(sentence_map) |->
     [text |-> sentence_map[k].text,
      consensus_score |-> Len(sentence_map[k].selected_by),
      consensus_level |-> ConsensusLevel(Len(sentence_map[k].selected_by), total_providers),
      selected_by |-> sentence_map[k].selected_by,
      reasons |-> sentence_map[k].reasons]]

\* list.sort(key=consensus_score, reverse=True): stable, descending
InsertByScore(sorted, e) ==
  LET n == Cardinality({ i \in 1..Len(sorted) : sorted[i].consensus_score >= e.consensus_score })
  IN  SubSeq(sorted, 1, n) \o <<e>> \o SubSeq(sorted, n + 1, Len(sorted))

RECURSIVE SortInto(_, _)
SortInto(sorted, rest) ==
  IF rest = <<>> THEN sorted
  ELSE SortInto(InsertByScore(sorted, Head(rest)), Tail(rest))

SortByScore_unsorted(consensus_sentences) == consensus_sentences

SortByScore(consensus_sentences) == SortInto(<<>>, consensus_sentences)

\* the two return statements of _calculate_consensus
CalculateConsensus(results, n_instances) ==
  LET successful_results == SuccessfulResults(results)
  IN  IF successful_results = <<>>
      THEN [success |-> FALSE, error |-> "All providers failed", sentences |-> <<>>]
      ELSE LET sorted == SortByScore(
                           ConsensusSentences(BuildSentenceMap(successful_results),
                                              Len(successful_results)))
           IN  [success |-> TRUE,
                total_providers |-> n_instances,
                successful_providers |-> SuccessfulProviders(results),
                failed_providers |-> FailedProviders(results),
                sentences |-> sorted,
                count |-> Len(sorted)]

\* the early return of analyze_article
EmptyTextResult == [success |-> FALSE, error |-> "Empty article text", sentences |-> <<>>]

NoResult == [none |-> TRUE]

\* value of article_text before analyze_article is called
NotCalled == <<"<not called>">>

\* self.llm_instances[provider_name] = llm   (dict assignment keeps one entry
\* per key, at the position of its first insertion)
StoreInstance_append(instances, provider_name) == Append(instances, provider_name)

StoreInstance(instances, provider_name) ==
  IF provider_name \in Range(instances) THEN instances
  ELSE Append(instances, provider_name)

\* ------------------------------------------------- llm/factory.py domains
\* Python's None, for an argument not given, an unset environment variable,
\* a keyring without the entry and a value not yet computed
NoneValue == "<None>"

\* class LLMProvider(Enum): the values of the known providers
LLMProviderValues == {"gemini", "openai", "claude", "llama", "mistral"}

\* str.lower() and str.upper() on the identifiers used here
Lower(s) == CASE s = "GEMINI" -> "gemini"
              [] OTHER -> s

Upper(s) == CASE s = "gemini" -> "GEMINI"
              [] s = "mistral" -> "MISTRAL"
              [] OTHER -> s

\* the provider argument of LLMFactory.create
ProviderArgs == {NoneValue, "gemini", "GEMINI", "mistral", "bogus"}

\* the api_key argument of LLMFactory.create
ApiKeyArgs == {NoneValue, "", "arg-key"}

\* key_name = f"{provider_name.upper()}_API_KEY"
KeyName(provider_name) == Upper(provider_name) \o "_API_KEY"

\* username = f"{provider_name}_api_key"
Username(provider_name) == provider_name \o "_api_key"

EnvNames == {KeyName("gemini"), KeyName("mistral"), "LLM_PROVIDER"}

\* the process environments considered: a variable is unset (NoneValue), set
\* to the empty string or set to a value
Environments ==
  { e \in [EnvNames -> {NoneValue, "", "env-key", "mistral", "bogus"}] :
      /\ e[KeyName("gemini")] \in {NoneValue, "", "env-key"}
      /\ e[KeyName("mistral")] \in {NoneValue, "env-key"}
      /\ e["LLM_PROVIDER"] \in {NoneValue, "mistral", "bogus"} }

Usernames == {Username("gemini"), Username("mistral")}

NoPasswords == [u \in Usernames |-> NoneValue]

\* the keyring module: not installed, raising on access, or answering
Keyrings ==
  {[backend |-> "missing", passwords |-> NoPasswords],
   [backend |-> "failing", passwords |-> NoPasswords]}
  \cup { [backend |-> "ok", passwords |-> [NoPasswords EXCEPT ![Username("gemini")] = v]] :
           v \in {NoneValue, "", "ring-key"} }

NoEntries == [k \in EnvNames |-> NoneValue]

\* python-dotenv and the project's .env file: module not installed, no file,
\* or a file with its entries
Dotenvs ==
  {[state |-> "no_module", values |-> NoEntries],
   [state |-> "no_file", values |-> NoEntries]}
  \cup { [state |-> "file", values |-> [NoEntries EXCEPT ![KeyName("gemini")] = v]] :
           v \in {NoneValue, "", "file-key"} }

\* the registry after _register_providers: a provider whose import failed
\* is left out
Registries == {LLMProviderValues, LLMProviderValues \ {"mistral"}}

\* truth value of an Optional[str]
Truthy(v) == v # NoneValue /\ v # ""

\* os.getenv("LLM_PROVIDER", "gemini")
GetProviderFromEnv(env) ==
  IF env["LLM_PROVIDER"] = NoneValue THEN "gemini" ELSE env["LLM_PROVIDER"]

\* load_dotenv(env_path): every entry of the file is put into os.environ
\* unless the variable is already there (override=False)
LoadDotenv(env, values) ==
  [k \in DOMAIN env |-> IF env[k] # NoneValue THEN env[k] ELSE values[k]]

NoOutcome == [kind |-> "none"]

Raised(exc) == [kind |-> "raised", exc |-> exc]

\* provider_class(config) with config.provider and config.api_key
Instance(provider_enum_, api_key_) ==
  [kind |-> "instance", provider |-> provider_enum_, api_key |-> api_key_]

\* -------------------------------------- llm/base.py and llm/providers domains
\* Response texts are sequences of tokens: punctuation, quoted strings,
\* other scalars, whitespace, the code fence and its language tag.
StringTokens == {"\"A\"", "\"B\"", "\"r\""}

\* the markdown code fence (three backquotes)
Fence == "<fence>"

ScalarTokens == StringTokens \cup {"1", "null"}

\* the text of a quoted string
Unquote(t) == CASE t = "\"A\"" -> "A"
                [] t = "\"B\"" -> "B"
                [] t = "\"r\"" -> "r"
                [] OTHER -> t

\* what _call_api may return: response.text, message.content, ...
RawResponses ==
  { <<"{", "\"A\"", ":", "\"r\"", "}">>,
    <<"{", "\"A\"", ":", "\"r\"", ",", "\"B\"", ":", "\"r\"", "}">>,
    <<" ", "{", "}", "\n">>,
    <<Fence, "json", "\n", "{", "\"A\"", ":", "\"r\"", "}", "\n", Fence>>,
    <<Fence, "\n", "{", "\"B\"", ":", "\"r\"", "}", "\n", Fence>>,
    <<Fence, "JSON", "{", "\"A\"", ":", "null", "}", Fence>>,
    <<"x", Fence, "json", "{", "}", Fence>>,
    <<"{", "\"A\"", ":", "1", "}">>,
    <<"{", "\"A\"", ":", "\"r\"">>,
    <<"[", "]">>,
    <<"\"A\"">>,
    <<"x">>,
    <<>>,
    NoneText }

\* text.split(Fence)[1]: the tokens after the leading fence up to the next one
RECURSIVE UpToFence(_)
UpToFence(toks) ==
  IF toks = <<>> \/ Head(toks) = Fence THEN <<>>
  ELSE <<Head(toks)>> \o UpToFence(Tail(toks))

\* BaseLLMProvider._clean_json_response
CleanJsonResponse(text) ==
  LET stripped == Strip(text) IN
    IF stripped # <<>> /\ Head(stripped) = Fence
    THEN LET part == UpToFence(Tail(stripped)) IN
           IF part # <<>> /\ Head(part) \in {"json", "JSON"}
           THEN Strip(Tail(part))
           ELSE part
    ELSE stripped

JsonError == [kind |-> "error", items |-> <<>>]

\* d[key] = value on a dict held as the sequence of its items
DictSet(items, key, value) ==
  IF \E i \in 1..Len(items) : items[i].key = key
  THEN [i \in 1..Len(items) |->
          IF items[i].key = key THEN [key |-> key, value |-> value] ELSE items[i]]
  ELSE Append(items, [key |-> key, value |-> value])

\* the members of a JSON object: string : scalar (, string : scalar)*
RECURSIVE JsonMembers(_, _)
JsonMembers(items, toks) ==
  IF Len(toks) < 3 \/ toks[1] \notin StringTokens \/ toks[2] # ":"
     \/ toks[3] \notin ScalarTokens
  THEN JsonError
  ELSE LET next == DictSet(items, Unquote(toks[1]), toks[3]) IN
         IF Len(toks) = 3 THEN [kind |-> "dict", items |-> next]
         ELSE IF toks[4] # "," THEN JsonError
         ELSE JsonMembers(next, SubSeq(toks, 5, Len(toks)))

\* json.loads on the documents considered here: an object of scalars, an
\* empty array or a scalar; anything else is a JSONDecodeError
JsonLoads(text) ==
  LET toks == SelectSeq(text, LAMBDA t : t \notin Whitespace) IN
    IF toks = <<>> THEN JsonError
    ELSE IF Len(toks) = 1 /\ toks[1] \in ScalarTokens THEN [kind |-> "scalar", items |-> <<>>]
    ELSE IF toks = <<"[", "]">> THEN [kind |-> "list", items |-> <<>>]
    ELSE IF toks = <<"{", "}">> THEN [kind |-> "dict", items |-> <<>>]
    ELSE IF Len(toks) >= 2 /\ toks[1] = "{" /\ toks[Len(toks)] = "}"
         THEN JsonMembers(<<>>, SubSeq(toks, 2, Len(toks) - 1))
    ELSE JsonError

\* BaseLLMProvider._parse_json_response: the parsed dict, or JSONParseError
\* for a text that is None (text.strip() raises), that does not parse, that
\* is not an object, or that has a value that is not a string
ParseJsonResponse(text) ==
  IF text = NoneText THEN [ok |-> FALSE, sentences |-> <<>>]
  ELSE LET parsed == JsonLoads(CleanJsonResponse(text)) IN
         IF parsed.kind # "dict"
            \/ \E i \in 1..Len(parsed.items) : parsed.items[i].value \notin StringTokens
         THEN [ok |-> FALSE, sentences |-> <<>>]
         ELSE [ok |-> TRUE,
               sentences |-> [i \in 1..Len(parsed.items) |->
                                [sentence |-> parsed.items[i].key,
                                 reason |-> Unquote(parsed.items[i].value)]]]

\* AnalysisResult(sentences=..., provider=..., model=...)
AnalysisResult(sentences, provider) ==
  [kind |-> "result", sentences |-> sentences, provider |-> provider]

\* ------------------------------ services/analysis_service.py token estimate
MaxTextLen == 9

\* the texts whose tokens are estimated: None, and texts of every length up
\* to MaxTextLen
EstimateTexts == {NoneText} \cup { [i \in 1..n |-> "a"] : n \in 0..MaxTextLen }

\* an Optional[int]: None is [present |-> FALSE, value |-> 0]
NoInt == [present |-> FALSE, value |-> 0]

SomeInt(v) == [present |-> TRUE, value |-> v]

\* values of LLM_EST_CHARS_PER_TOKEN, and values assigned to
\* settings.llm.estimated_chars_per_token at run time (assignment is not
\* validated)
CharsPerTokenValues == {NoInt} \cup { SomeInt(v) : v \in {-2, 0, 1, 3, 4, 10} }

Max(a, b) == IF a >= b THEN a ELSE b

\* int(a / b) for a >= 0 and b # 0: the quotient truncated toward zero
TruncDiv(a, b) == IF b > 0 THEN a \div b ELSE 0 - (a \div (0 - b))

\* chars_per_token = settings.llm.estimated_chars_per_token or 4
\* if chars_per_token <= 0: chars_per_token = 4
CharsPerToken_unchecked(setting) ==
  IF setting.present THEN setting.value ELSE 4

CharsPerToken(setting) ==
  LET chars_per_token == IF setting.present /\ setting.value # 0
                         THEN setting.value ELSE 4
  IN  IF chars_per_token <= 0 THEN 4 ELSE chars_per_token

IntValue(v) == [kind |-> "value", value |-> v]

\* AnalysisService._estimate_tokens
EstimateTokens(text, setting) ==
  IF text = NoneText \/ text = <<>> THEN IntValue(0)
  ELSE IF CharsPerToken(setting) = 0 THEN Raised("ZeroDivisionError")
  ELSE IntValue(Max(1, TruncDiv(Len(text), CharsPerToken(setting))))

\* ------------------------------------------- services/cache_service.py domain
\* largest number of set_analysis_result calls followed
MaxCacheSets == 2

CacheUrls == {"https://example.com/a", "https://example.com/b"}

\* hashlib.md5(url.encode()).hexdigest()[:8]
UrlHash(url) ==
  IF url = "https://example.com/a" THEN "cd69b81e" ELSE "43cc12e8"

\* the `providers` arguments of the cache calls
CacheProviderLists ==
  { <<"gemini">>,
    <<"gemini", "gemini">>,
    <<"gemini", "mistral">>,
    <<"mistral", "gemini">>,
    <<"gemini", "mistral", "openai">>,
    <<"openai", "gemini", "mistral">> }

\* position of a provider name in the order of str comparison
NameRank(p) ==
  CASE p = "claude" -> 1
    [] p = "gemini" -> 2
    [] p = "llama" -> 3
    [] p = "mistral" -> 4
    [] p = "openai" -> 5

InsertName(sorted, p) ==
  LET k == Cardinality({ i \in 1..Len(sorted) : NameRank(sorted[i]) <= NameRank(p) })
  IN  SubSeq(sorted, 1, k) \o <<p>> \o SubSeq(sorted, k + 1, Len(sorted))

RECURSIVE SortNames(_, _)
SortNames(sorted, rest) ==
  IF rest = <<>> THEN sorted
  ELSE SortNames(InsertName(sorted, Head(rest)), Tail(rest))

\* sorted(providers)
Sorted(providers_) == SortNames(<<>>, providers_)

\* ','.join(names)
RECURSIVE JoinComma(_)
JoinComma(names) ==
  IF names = <<>> THEN ""
  ELSE IF Len(names) = 1 THEN names[1]
  ELSE names[1] \o "," \o JoinComma(Tail(names))

\* CacheService._generate_cache_key
GenerateCacheKey_unsorted(url, providers_) ==
  "article:" \o UrlHash(url) \o ":providers:" \o JoinComma(providers_) \o ":v1"

GenerateCacheKey(url, providers_) ==
  "article:" \o UrlHash(url) \o ":providers:" \o JoinComma(Sorted(providers_)) \o ":v1"

CacheKeys == { GenerateCacheKey(u, ps) : u \in CacheUrls, ps \in CacheProviderLists }

\* the analysis results that are cached
CacheValues == {"result-1", "result-2"}

\* json.dumps(analysis_result) and json.loads(cached_data)
JsonDumps(value) == <<"json", value>>

JsonLoadsCached(data) == data[2]

\* a Redis key that holds nothing; a held string carries, for the
\* properties only, the arguments of the set call that wrote it
NoCacheEntry ==
  [present |-> FALSE, data |-> JsonDumps(NoneValue), url |-> NoneValue,
   providers |-> <<>>]

CacheEntry(url, providers_, value) ==
  [present |-> TRUE, data |-> JsonDumps(value), url |-> url,
   providers |-> providers_]

\* no get_analysis_result call has just returned
NoGet ==
  [outcome |-> "none", url |-> NoneValue, providers |-> <<>>,
   value |-> NoneValue]

GetReturned(outcome, url, providers_, value) ==
  [outcome |-> outcome, url |-> url, providers |-> providers_, value |-> value]

\* ----------------------------------- services/feature_flags_service.py domain
\* largest value of the clock (datetime.utcnow())
MaxClock == 2

\* self._cache_duration, in clock ticks
CacheDuration == 1

\* the request threads that use the module-level feature_flags_service: one
\* sets and reads the flag, the other only reads
FlagThreads == {"caller", "other"}

\* what the database, a loaded dict or the cache holds for the flag name:
\* no row, a row with enabled = True, a row with enabled = False
FlagStates == {"missing", "on", "off"}

\* is_enabled(flag_name): default when the flag is not in the cache,
\* flag_data['enabled'] otherwise (default = False)
LookupEnabled(cache_) == cache_ = "on"

\* ------------------------------------------------------------------- state
VARIABLES
  providers,       \* self.providers
  initIdx,         \* position of the loop of _initialize_providers
  llm_instances,   \* keys of self.llm_instances, in insertion order
  init_log,        \* what the loop logged per requested identifier
  pc,              \* position of the caller's thread
  article_text,    \* argument of analyze_article
  max_workers,     \* ThreadPoolExecutor(max_workers=...)
  threads,         \* worker threads the executor has started
  idle_semaphore,  \* executor's count of workers that went idle
  queue,           \* executor's work queue (indices into futures)
  futures,         \* submitted futures, in submission order
  callCount,       \* number of llm.analyze invocations per provider
  collected,       \* futures already yielded by as_completed
  results,         \* the list `results`
  result,          \* value returned by analyze_article
  environ,         \* os.environ
  keyring,         \* the keyring module and the passwords it holds
  dotenv,          \* python-dotenv and the .env file
  provider_registry, \* LLMFactory._provider_registry (its keys)
  create_pc,       \* position inside LLMFactory.create / get_api_key
  arg_provider,    \* argument provider of create
  arg_api_key,     \* argument api_key of create
  provider_enum,   \* local provider_enum of create (its value)
  api_key,         \* local api_key of create once it is determined
  lookups,         \* secret stores read so far, in order
  created,         \* what create returned or raised
  providers_to_try, \* create_with_fallback: [primary_provider] + fallback_providers
  try_idx,         \* position of the loop of create_with_fallback
  last_error,      \* local last_error of create_with_fallback
  attempts,        \* the create calls made so far and how each ended
  fallback_pc,     \* position inside create_with_fallback
  fallback_result, \* what create_with_fallback returned or raised
  prov_name,       \* the provider whose analyze_article is followed
  prov_text,       \* its argument article_text
  prov_pc,         \* position inside analyze_article
  raw_response,    \* local raw_response
  api_calls,       \* number of _call_api invocations
  prov_result,     \* what analyze_article returned or raised
  env_chars,       \* LLM_EST_CHARS_PER_TOKEN in the environment
  setting_chars,   \* settings.llm.estimated_chars_per_token
  est_pc,          \* settings not loaded / loaded / load failed / estimated
  est_text,        \* argument text of _estimate_tokens
  est_result,      \* what _estimate_tokens returned or raised
  cache_enabled,   \* CacheService._enabled (with a connected client)
  redis_store,     \* the Redis database: what each key holds
  cache_sets,      \* number of set_analysis_result calls made
  last_set,        \* return value of the set_analysis_result call just made
  last_get,        \* the get_analysis_result call that has just returned
  db_flag,         \* the flag's row in the feature_flags table
  flag_cache,      \* FeatureFlagsService._cache, at the flag's name
  cache_timestamp, \* FeatureFlagsService._cache_timestamp
  clock,           \* datetime.utcnow()
  th_pc,           \* position of each thread in its call
  th_call,         \* the call each thread is in, or made last
  th_now,          \* local `now` of _refresh_cache_if_needed
  th_loaded,       \* what _load_flags_from_db returned to the thread
  th_returned,     \* the value the thread's last call returned
  flag_set,        \* value of the caller's last set_flag that returned True
  flag_checked     \* flag_set as of the start of the caller's read

vars == <<providers, initIdx, llm_instances, init_log, pc, article_text, max_workers,
          threads, idle_semaphore, queue, futures, callCount, collected,
          results, result, environ, keyring, dotenv, provider_registry,
          create_pc, arg_provider, arg_api_key, provider_enum, api_key,
          lookups, created, providers_to_try, try_idx, last_error, attempts,
          fallback_pc, fallback_result, prov_name, prov_text, prov_pc,
          raw_response, api_calls, prov_result, env_chars, setting_chars,
          est_pc, est_text, est_result, cache_enabled, redis_store,
          cache_sets, last_set, last_get, db_flag, flag_cache,
          cache_timestamp, clock, th_pc, th_call, th_now, th_loaded,
          th_returned, flag_set, flag_checked>>

initVars == <<providers, initIdx, llm_instances, init_log>>
poolVars == <<max_workers, threads, idle_semaphore, queue, futures, callCount>>
consensusVars == <<initVars, pc, article_text, poolVars, collected, results, result>>
storeVars == <<keyring, dotenv, provider_registry>>
argVars == <<arg_provider, arg_api_key>>
fallbackVars == <<providers_to_try, try_idx, last_error, attempts, fallback_pc,
                  fallback_result>>
factoryVars == <<environ, storeVars, argVars, create_pc, provider_enum, api_key,
                 lookups, created, fallbackVars>>

\* no create_with_fallback call is being followed
FallbackIdle ==
  /\ providers_to_try = <<>>
  /\ try_idx = 1
  /\ last_error = NoneValue
  /\ attempts = <<>>
  /\ fallback_pc = "idle"
  /\ fallback_result = NoOutcome

providerVars == <<prov_name, prov_text, prov_pc, raw_response, api_calls, prov_result>>

\* no provider's analyze_article is being followed
ProviderIdle ==
  /\ prov_name = NoneValue
  /\ prov_text = NotCalled
  /\ prov_pc = "idle"
  /\ raw_response = NotCalled
  /\ api_calls = 0
  /\ prov_result = NoOutcome

estimateVars == <<env_chars, setting_chars, est_pc, est_text, est_result>>

\* no token estimate is being followed
EstimateIdle ==
  /\ env_chars = NoInt
  /\ setting_chars = SomeInt(4)
  /\ est_pc = "idle"
  /\ est_text = NotCalled
  /\ est_result = NoOutcome

cacheVars == <<cache_enabled, redis_store, cache_sets, last_set, last_get>>

\* no cache call is being followed
CacheIdle ==
  /\ cache_enabled = FALSE
  /\ redis_store = [k \in CacheKeys |-> NoCacheEntry]
  /\ cache_sets = 0
  /\ last_set = NoneValue
  /\ last_get = NoGet

flagVars == <<db_flag, flag_cache, cache_timestamp, clock, th_pc, th_call,
              th_now, th_loaded, th_returned, flag_set, flag_checked>>

\* a FeatureFlagsService just constructed, no call made
FlagIdle ==
  /\ db_flag = "missing"
  /\ flag_cache = "missing"
  /\ cache_timestamp = NoInt
  /\ clock = 0
  /\ th_pc = [t \in FlagThreads |-> "idle"]
  /\ th_call = [t \in FlagThreads |-> NoneValue]
  /\ th_now = [t \in FlagThreads |-> 0]
  /\ th_loaded = [t \in FlagThreads |-> "missing"]
  /\ th_returned = [t \in FlagThreads |-> NoneValue]
  /\ flag_set = NoneValue
  /\ flag_checked = NoneValue

\* no LLMFactory.create call is being followed step by step
FactoryIdle ==
  /\ environ = [k \in EnvNames |-> NoneValue]
  /\ keyring = [backend |-> "missing", passwords |-> NoPasswords]
  /\ dotenv = [state |-> "no_module", values |-> NoEntries]
  /\ provider_registry = LLMProviderValues
  /\ create_pc = "idle"
  /\ arg_provider = NoneValue
  /\ arg_api_key = NoneValue
  /\ provider_enum = NoneValue
  /\ api_key = NoneValue
  /\ lookups = <<>>
  /\ created = NoOutcome
  /\ FallbackIdle

\* everything but the state of the ConsensusAnalyzer
nonConsensusVars ==
  <<factoryVars, providerVars, estimateVars, cacheVars, flagVars>>

NonConsensusIdle ==
  FactoryIdle /\ ProviderIdle /\ EstimateIdle /\ CacheIdle /\ FlagIdle

Running == { i \in 1..Len(futures) : futures[i].state = "running" }
Finished == { i \in 1..Len(futures) : futures[i].state = "finished" }

\* __init__: self.providers = providers or [...]; self.llm_instances = {}
Init ==
  /\ \E requested \in RequestedLists :
       providers = IF requested = <<>> THEN DefaultProviders ELSE requested
  /\ initIdx = 1
  /\ llm_instances = <<>>
  /\ init_log = <<>>
  /\ pc = "init"
  /\ article_text = NotCalled
  /\ max_workers = 0
  /\ threads = 0
  /\ idle_semaphore = 0
  /\ queue = <<>>
  /\ futures = <<>>
  /\ callCount = [p \in RequestNames |-> 0]
  /\ collected = {}
  /\ results = <<>>
  /\ result = NoResult
  /\ NonConsensusIdle

\* ---------------------------------------------------- _initialize_providers
\* if provider_name not in SUPPORTED_PROVIDERS: continue
InitializeSkip ==
  /\ pc = "init"
  /\ initIdx <= Len(providers)
  /\ providers[initIdx] \notin SUPPORTED_PROVIDERS
  /\ init_log' = Append(init_log, "skipped")
  /\ initIdx' = initIdx + 1
  /\ UNCHANGED nonConsensusVars
  /\ UNCHANGED <<providers, llm_instances, pc, article_text, poolVars,
                 collected, results, result>>

\* LLMFactory.create returned an instance
InitializeCreate ==
  /\ pc = "init"
  /\ initIdx <= Len(providers)
  /\ providers[initIdx] \in SUPPORTED_PROVIDERS
  /\ llm_instances' = StoreInstance(llm_instances, providers[initIdx])
  /\ init_log' = Append(init_log, "initialized")
  /\ initIdx' = initIdx + 1
  /\ UNCHANGED nonConsensusVars
  /\ UNCHANGED <<providers, pc, article_text, poolVars, collected, results, result>>

\* LLMFactory.create raised (APIKeyError, UnsupportedProviderError or any
\* other Exception): logged, the identifier is left out
InitializeCreateFails_abort ==
  /\ pc = "init"
  /\ initIdx <= Len(providers)
  /\ providers[initIdx] \in SUPPORTED_PROVIDERS
  /\ init_log' = Append(init_log, "failed")
  /\ pc' = "raised"
  /\ UNCHANGED nonConsensusVars
  /\ UNCHANGED <<providers, initIdx, llm_instances, article_text, poolVars,
                 collected, results, result>>

InitializeCreateFails ==
  /\ pc = "init"
  /\ initIdx <= Len(providers)
  /\ providers[initIdx] \in SUPPORTED_PROVIDERS
  /\ init_log' = Append(init_log, "failed")
  /\ initIdx' = initIdx + 1
  /\ UNCHANGED nonConsensusVars
  /\ UNCHANGED <<providers, llm_instances, pc, article_text, poolVars,
                 collected, results, result>>

\* if not self.llm_instances: raise ValueError("No LLM providers initialized...")
InitializeRaise_unchecked ==
  /\ pc = "init"
  /\ initIdx > Len(providers)
  /\ llm_instances = <<>>
  /\ pc' = "ready"
  /\ UNCHANGED nonConsensusVars
  /\ UNCHANGED <<initVars, article_text, poolVars, collected, results, result>>

InitializeRaise ==
  /\ pc = "init"
  /\ initIdx > Len(providers)
  /\ llm_instances = <<>>
  /\ pc' = "raised"
  /\ UNCHANGED nonConsensusVars
  /\ UNCHANGED <<initVars, article_text, poolVars, collected, results, result>>

InitializeDone ==
  /\ pc = "init"
  /\ initIdx > Len(providers)
  /\ llm_instances # <<>>
  /\ pc' = "ready"
  /\ UNCHANGED nonConsensusVars
  /\ UNCHANGED <<initVars, article_text, poolVars, collected, results, result>>

\* ---------------------------------------------------------- analyze_article
\* the early return on empty text
AnalyzeArticleEmpty ==
  /\ pc = "ready"
  /\ \E text \in ArticleTexts :
       /\ IsBlank(text)
       /\ article_text' = text
  /\ result' = EmptyTextResult
  /\ pc' = "done"
  /\ UNCHANGED nonConsensusVars
  /\ UNCHANGED <<initVars, poolVars, collected, results>>

\* results = []; with ThreadPoolExecutor(max_workers=len(self.llm_instances))
AnalyzeArticleStart ==
  /\ pc = "ready"
  /\ \E text \in ArticleTexts :
       /\ ~IsBlank(text)
       /\ article_text' = text
  /\ max_workers' = Len(llm_instances)
  /\ pc' = "submit"
  /\ UNCHANGED nonConsensusVars
  /\ UNCHANGED <<initVars, threads, idle_semaphore, queue, futures, callCount,
                 collected, results, result>>

\* executor.submit(self._analyze_with_provider, name, article_text) for the
\* next name of self.llm_instances.keys(); the executor queues the work item
\* and starts a thread unless an idle one is counted or max_workers is reached
Submit ==
  /\ pc = "submit"
  /\ Len(futures) < Len(llm_instances)
  /\ LET i == Len(futures) + 1 IN
       /\ futures' = Append(futures, [name |-> llm_instances[i], state |-> "pending",
                                      returned |-> "nothing", value |-> NoResult])
       /\ queue' = Append(queue, i)
       /\ IF idle_semaphore > 0
          THEN /\ idle_semaphore' = idle_semaphore - 1
               /\ threads' = threads
          ELSE /\ idle_semaphore' = idle_semaphore
               /\ threads' = IF threads < max_workers THEN threads + 1 ELSE threads
       /\ pc' = IF i = Len(llm_instances) THEN "collect" ELSE "submit"
  /\ UNCHANGED nonConsensusVars
  /\ UNCHANGED <<initVars, article_text, max_workers, callCount, collected,
                 results, result>>

\* a free worker thread takes the oldest work item and enters
\* _analyze_with_provider, which invokes llm.analyze(prompt)
WorkerStart ==
  /\ queue # <<>>
  /\ Cardinality(Running) < threads
  /\ LET i == Head(queue) IN
       /\ futures' = [futures EXCEPT ![i].state = "running"]
       /\ callCount' = [callCount EXCEPT ![futures[i].name] = @ + 1]
  /\ queue' = Tail(queue)
  /\ UNCHANGED nonConsensusVars
  /\ UNCHANGED <<initVars, pc, article_text, max_workers, threads, idle_semaphore,
                 collected, results, result>>

\* the worker stores the function's return value in the future and goes idle
\* (`returned` keeps what llm.analyze did: "dict", "other" or "raised")
Complete(i, returned, value) ==
  /\ futures' = [futures EXCEPT ![i].state = "finished",
                                ![i].returned = returned, ![i].value = value]
  /\ idle_semaphore' = idle_semaphore + 1
  /\ UNCHANGED nonConsensusVars
  /\ UNCHANGED <<initVars, pc, article_text, max_workers, threads, queue,
                 callCount, collected, results, result>>

\* llm.analyze returned a dict {sentence: reason}
AnalyzeReturnsDict ==
  \E i \in Running : \E response \in Responses(futures[i].name) :
     Complete(i, "dict", SuccessOutcome(futures[i].name, TRUE, response))

\* llm.analyze returned a value that is not a dict
AnalyzeReturnsOther ==
  \E i \in Running :
     Complete(i, "other", SuccessOutcome(futures[i].name, FALSE, <<>>))

\* llm.analyze (or anything else in the try block) raised an Exception
AnalyzeRaises ==
  \E i \in Running : Complete(i, "raised", FailureOutcome(futures[i].name))

\* for future in as_completed(futures): results.append(future.result())
\* as_completed yields each future once, only after it has finished; futures
\* that finished before the loop asks are yielded in no particular order
Collect_firstOnly ==
  /\ pc = "collect"
  /\ collected = {}
  /\ \E i \in Finished \ collected :
       /\ results' = Append(results, futures[i].value)
       /\ collected' = collected \cup {i}
  /\ UNCHANGED nonConsensusVars
  /\ UNCHANGED <<initVars, pc, article_text, poolVars, result>>

Collect ==
  /\ pc = "collect"
  /\ \E i \in Finished \ collected :
       /\ results' = Append(results, futures[i].value)
       /\ collected' = collected \cup {i}
  /\ UNCHANGED nonConsensusVars
  /\ UNCHANGED <<initVars, pc, article_text, poolVars, result>>

\* the loop is exhausted and the with block exits (shutdown(wait=True))
ExitPool_early ==
  /\ pc = "collect"
  /\ collected # {}
  /\ pc' = "aggregate"
  /\ UNCHANGED nonConsensusVars
  /\ UNCHANGED <<initVars, article_text, poolVars, collected, results, result>>

ExitPool ==
  /\ pc = "collect"
  /\ collected = 1..Len(futures)
  /\ Running = {}
  /\ queue = <<>>
  /\ pc' = "aggregate"
  /\ UNCHANGED nonConsensusVars
  /\ UNCHANGED <<initVars, article_text, poolVars, collected, results, result>>

\* consensus_data = self._calculate_consensus(results); return consensus_data
Aggregate_retry ==
  /\ pc = "aggregate"
  /\ IF SuccessfulResults(results) = <<>>
     THEN /\ pc' = "ready"
          /\ result' = result
     ELSE /\ pc' = "done"
          /\ result' = CalculateConsensus(results, Len(llm_instances))
  /\ UNCHANGED nonConsensusVars
  /\ UNCHANGED <<initVars, article_text, poolVars, collected, results>>

Aggregate ==
  /\ pc = "aggregate"
  /\ result' = CalculateConsensus(results, Len(llm_instances))
  /\ pc' = "done"
  /\ UNCHANGED nonConsensusVars
  /\ UNCHANGED <<initVars, article_text, poolVars, collected, results>>

Next ==
  \/ InitializeSkip
  \/ InitializeCreate
  \/ InitializeCreateFails
  \/ InitializeRaise
  \/ InitializeDone
  \/ AnalyzeArticleEmpty
  \/ AnalyzeArticleStart
  \/ Submit
  \/ WorkerStart
  \/ AnalyzeReturnsDict
  \/ AnalyzeReturnsOther
  \/ AnalyzeRaises
  \/ Collect
  \/ ExitPool
  \/ Aggregate

Spec == Init /\ [][Next]_vars

\* ------------------------------------------------- analyze_article, fairness
\* Runs of at most two constructed providers under the scheduling the code
\* has: the calling thread runs its sequential code (the submit loop, the
\* as_completed loop, the exit of the with block, _calculate_consensus)
\* whenever it is not blocked, and the executor's threads take queued work.
\* Nothing is assumed about llm.analyze: a call may run forever.
LiveRequestedLists ==
  { <<"gemini">>, <<"gemini", "gemini">>, <<"mistral", "gemini">>,
    <<"bogus", "mistral">> }

LiveInit ==
  /\ Init
  /\ providers \in LiveRequestedLists

\* the step from the exit of the with block to the return statement: the
\* pc change of Aggregate, its only source
AggregateReturns == pc = "aggregate" /\ pc' = "done"

Fairness ==
  /\ WF_vars(Submit)
  /\ WF_vars(WorkerStart)
  /\ WF_vars(Collect)
  /\ WF_vars(ExitPool)
  /\ WF_pc(AggregateReturns)

SpecLive == LiveInit /\ [][Next]_vars /\ Fairness

\* ------------------------------------------- _calculate_consensus on its own
\* The aggregator is a function of `results`.  AggInit is the state at the
\* call of _calculate_consensus (line 185) after a run in which every
\* requested provider was constructed and all calls were submitted before the
\* first one returned: any outcome per provider, collected in any order.
AggInstances == { <<"gemini">>, <<"gemini", "mistral">>, <<"gemini", "mistral", "openai">> }

AggOutcomes(p) ==
  {FailureOutcome(p)} \cup { SuccessOutcome(p, TRUE, r) : r \in AggResponses(p) }

AggInit ==
  /\ \E inst \in AggInstances :
       /\ providers = inst
       /\ llm_instances = inst
       /\ initIdx = Len(inst) + 1
       /\ init_log = [i \in 1..Len(inst) |-> "initialized"]
       /\ max_workers = Len(inst)
       /\ threads = Len(inst)
       /\ idle_semaphore = Len(inst)
       /\ callCount = [p \in RequestNames |-> IF p \in Range(inst) THEN 1 ELSE 0]
       /\ collected = 1..Len(inst)
       /\ \E vals \in [1..Len(inst) -> UNION { AggOutcomes(inst[i]) : i \in 1..Len(inst) }] :
            /\ \A i \in 1..Len(inst) : vals[i].provider = inst[i]
            /\ futures = [i \in 1..Len(inst) |->
                            [name |-> inst[i], state |-> "finished",
                             returned |-> IF vals[i].success THEN "dict" ELSE "raised",
                             value |-> vals[i]]]
            /\ results \in Perms(vals)
  /\ pc = "aggregate"
  /\ article_text = <<"A">>
  /\ queue = <<>>
  /\ result = NoResult
  /\ NonConsensusIdle

AggNext == Aggregate

SpecAgg == AggInit /\ [][AggNext]_vars

\* ----------------------------------------------- LLMFactory.create on its own
\* One call LLMFactory.create(provider, api_key) is followed from its entry
\* to its return or raise, get_api_key and the provider's constructor
\* included, for any environment, keyring, .env file and registry.

\* the state of a ConsensusAnalyzer that is not being run
ConsensusIdle ==
  /\ providers = DefaultProviders
  /\ initIdx = 1
  /\ llm_instances = <<>>
  /\ init_log = <<>>
  /\ pc = "init"
  /\ article_text = NotCalled
  /\ max_workers = 0
  /\ threads = 0
  /\ idle_semaphore = 0
  /\ queue = <<>>
  /\ futures = <<>>
  /\ callCount = [p \in RequestNames |-> 0]
  /\ collected = {}
  /\ results = <<>>
  /\ result = NoResult

\* everything but the state of the factory
nonFactoryVars ==
  <<consensusVars, providerVars, estimateVars, cacheVars, flagVars>>

NonFactoryIdle ==
  ConsensusIdle /\ ProviderIdle /\ EstimateIdle /\ CacheIdle /\ FlagIdle

FactoryInit ==
  /\ NonFactoryIdle
  /\ environ \in Environments
  /\ keyring \in Keyrings
  /\ dotenv \in Dotenvs
  /\ provider_registry \in Registries
  /\ arg_provider \in ProviderArgs
  /\ arg_api_key \in ApiKeyArgs
  /\ create_pc = "start"
  /\ provider_enum = NoneValue
  /\ api_key = NoneValue
  /\ lookups = <<>>
  /\ created = NoOutcome
  /\ FallbackIdle

\* if provider is None: provider = get_provider_from_env()
EffectiveProvider ==
  IF arg_provider = NoneValue THEN GetProviderFromEnv(environ) ELSE arg_provider

\* provider_enum = LLMProvider(provider.lower())
CreateResolveProvider ==
  /\ create_pc = "start"
  /\ Lower(EffectiveProvider) \in LLMProviderValues
  /\ provider_enum' = Lower(EffectiveProvider)
  /\ create_pc' = "key"
  /\ UNCHANGED <<nonFactoryVars, fallbackVars, environ, storeVars, argVars, api_key, lookups, created>>

\* except ValueError: raise UnsupportedProviderError
CreateUnsupported ==
  /\ create_pc = "start"
  /\ Lower(EffectiveProvider) \notin LLMProviderValues
  /\ created' = Raised("UnsupportedProviderError")
  /\ create_pc' = "raised"
  /\ UNCHANGED <<nonFactoryVars, fallbackVars, environ, storeVars, argVars, provider_enum, api_key,
                 lookups>>

\* if api_key is None: is false, the argument is taken as it is
CreateExplicitKey ==
  /\ create_pc = "key"
  /\ arg_api_key # NoneValue
  /\ api_key' = arg_api_key
  /\ create_pc' = "config"
  /\ UNCHANGED <<nonFactoryVars, fallbackVars, environ, storeVars, argVars, provider_enum, lookups,
                 created>>

\* api_key = get_api_key(provider_enum); inside it: os.getenv(key_name)
GetApiKeyEnviron ==
  /\ create_pc = "key"
  /\ arg_api_key = NoneValue
  /\ lookups' = Append(lookups, "environ")
  /\ LET value == environ[KeyName(provider_enum)] IN
       IF Truthy(value)
       THEN /\ api_key' = value
            /\ create_pc' = "got_key"
       ELSE /\ api_key' = api_key
            /\ create_pc' = "keyring"
  /\ UNCHANGED <<nonFactoryVars, fallbackVars, environ, storeVars, argVars, provider_enum, created>>

\* import keyring; keyring.get_password("highright", username); an
\* ImportError or any other exception is logged and the next source is tried
GetApiKeyKeyring ==
  /\ create_pc = "keyring"
  /\ lookups' = IF keyring.backend = "missing" THEN lookups
                ELSE Append(lookups, "keyring")
  /\ LET value == keyring.passwords[Username(provider_enum)] IN
       IF keyring.backend = "ok" /\ Truthy(value)
       THEN /\ api_key' = value
            /\ create_pc' = "got_key"
       ELSE /\ api_key' = api_key
            /\ create_pc' = "dotenv"
  /\ UNCHANGED <<nonFactoryVars, fallbackVars, environ, storeVars, argVars, provider_enum, created>>

\* if env_path.exists(): load_dotenv(env_path); os.getenv(key_name);
\* otherwise, and when the value is empty, get_api_key returns None
GetApiKeyDotenv ==
  /\ create_pc = "dotenv"
  /\ IF dotenv.state = "file"
     THEN /\ environ' = LoadDotenv(environ, dotenv.values)
          /\ lookups' = Append(lookups, "dotenv")
          /\ api_key' = IF Truthy(environ'[KeyName(provider_enum)])
                        THEN environ'[KeyName(provider_enum)]
                        ELSE NoneValue
     ELSE /\ environ' = environ
          /\ lookups' = lookups
          /\ api_key' = NoneValue
  /\ create_pc' = "got_key"
  /\ UNCHANGED <<nonFactoryVars, fallbackVars, storeVars, argVars, provider_enum, created>>

\* if not api_key: raise APIKeyError
CreateKeyError ==
  /\ create_pc = "got_key"
  /\ ~Truthy(api_key)
  /\ created' = Raised("APIKeyError")
  /\ create_pc' = "raised"
  /\ UNCHANGED <<nonFactoryVars, fallbackVars, environ, storeVars, argVars, provider_enum, api_key,
                 lookups>>

\* get_api_key returned a value; config = get_default_config(provider_enum, api_key)
CreateKeyFound ==
  /\ create_pc = "got_key"
  /\ Truthy(api_key)
  /\ create_pc' = "config"
  /\ UNCHANGED <<nonFactoryVars, fallbackVars, environ, storeVars, argVars, provider_enum, api_key,
                 lookups, created>>

\* provider_class = cls._provider_registry.get(provider_enum);
\* if not provider_class: raise UnsupportedProviderError
CreateNoImplementation ==
  /\ create_pc = "config"
  /\ provider_enum \notin provider_registry
  /\ created' = Raised("UnsupportedProviderError")
  /\ create_pc' = "raised"
  /\ UNCHANGED <<nonFactoryVars, fallbackVars, environ, storeVars, argVars, provider_enum, api_key,
                 lookups>>

\* provider_class(config) -> _validate_config:
\* if not self.config.api_key: raise ConfigurationError
ProviderKeyRequired ==
  /\ create_pc = "config"
  /\ provider_enum \in provider_registry
  /\ ~Truthy(api_key)
  /\ created' = Raised("ConfigurationError")
  /\ create_pc' = "raised"
  /\ UNCHANGED <<nonFactoryVars, fallbackVars, environ, storeVars, argVars, provider_enum, api_key,
                 lookups>>

\* _validate_config: the client library raised while the client was set up
ProviderClientFails ==
  /\ create_pc = "config"
  /\ provider_enum \in provider_registry
  /\ Truthy(api_key)
  /\ created' = Raised("ConfigurationError")
  /\ create_pc' = "raised"
  /\ UNCHANGED <<nonFactoryVars, fallbackVars, environ, storeVars, argVars, provider_enum, api_key,
                 lookups>>

\* return provider_class(config)
CreateReturn ==
  /\ create_pc = "config"
  /\ provider_enum \in provider_registry
  /\ Truthy(api_key)
  /\ created' = Instance(provider_enum, api_key)
  /\ create_pc' = "returned"
  /\ UNCHANGED <<nonFactoryVars, fallbackVars, environ, storeVars, argVars, provider_enum, api_key,
                 lookups>>

FactoryNext ==
  \/ CreateResolveProvider
  \/ CreateUnsupported
  \/ CreateExplicitKey
  \/ GetApiKeyEnviron
  \/ GetApiKeyKeyring
  \/ GetApiKeyDotenv
  \/ CreateKeyError
  \/ CreateKeyFound
  \/ CreateNoImplementation
  \/ ProviderKeyRequired
  \/ ProviderClientFails
  \/ CreateReturn

SpecFactory == FactoryInit /\ [][FactoryNext]_vars

\* ------------------------------------------- LLMFactory.create_with_fallback
\* create_with_fallback(primary_provider, fallback_providers, **kwargs): the
\* loop over providers_to_try, each iteration one LLMFactory.create call
\* followed by the actions above; kwargs may carry api_key.
FallbackChains ==
  { <<"gemini">>,
    <<"gemini", "mistral">>,
    <<"mistral", "gemini">>,
    <<"bogus", "gemini">>,
    <<"bogus", "mistral", "gemini">> }

NoError == [exc |-> NoneValue, provider |-> NoneValue]

\* except (APIKeyError, UnsupportedProviderError): ConfigurationError is the
\* base class of APIKeyError and is not caught
Caught(exc) == exc \in {"APIKeyError", "UnsupportedProviderError"}

FallbackInit ==
  /\ NonFactoryIdle
  /\ environ \in { e \in Environments : e["LLM_PROVIDER"] = NoneValue }
  /\ keyring \in Keyrings
  /\ dotenv \in Dotenvs
  /\ provider_registry \in Registries
  /\ arg_provider = NoneValue
  /\ arg_api_key \in ApiKeyArgs
  /\ create_pc = "idle"
  /\ provider_enum = NoneValue
  /\ api_key = NoneValue
  /\ lookups = <<>>
  /\ created = NoOutcome
  /\ providers_to_try \in FallbackChains
  /\ try_idx = 1
  /\ last_error = NoError
  /\ attempts = <<>>
  /\ fallback_pc = "loop"
  /\ fallback_result = NoOutcome

\* for provider in providers_to_try: try: return cls.create(provider=provider, **kwargs)
FallbackTry ==
  /\ fallback_pc = "loop"
  /\ try_idx <= Len(providers_to_try)
  /\ arg_provider' = providers_to_try[try_idx]
  /\ create_pc' = "start"
  /\ provider_enum' = NoneValue
  /\ api_key' = NoneValue
  /\ lookups' = <<>>
  /\ created' = NoOutcome
  /\ fallback_pc' = "create"
  /\ UNCHANGED <<nonFactoryVars, environ, storeVars, arg_api_key, providers_to_try,
                 try_idx, last_error, attempts, fallback_result>>

\* create returned an instance: create_with_fallback returns it
FallbackReturn ==
  /\ fallback_pc = "create"
  /\ create_pc = "returned"
  /\ attempts' = Append(attempts, [provider |-> arg_provider, outcome |-> created])
  /\ fallback_result' = created
  /\ fallback_pc' = "returned"
  /\ create_pc' = "idle"
  /\ UNCHANGED <<nonFactoryVars, environ, storeVars, argVars, provider_enum, api_key,
                 lookups, created, providers_to_try, try_idx, last_error>>

\* except (APIKeyError, UnsupportedProviderError) as e: last_error = e; continue
FallbackCatch ==
  /\ fallback_pc = "create"
  /\ create_pc = "raised"
  /\ Caught(created.exc)
  /\ attempts' = Append(attempts, [provider |-> arg_provider, outcome |-> created])
  /\ last_error' = [exc |-> created.exc, provider |-> arg_provider]
  /\ try_idx' = try_idx + 1
  /\ fallback_pc' = "loop"
  /\ create_pc' = "idle"
  /\ UNCHANGED <<nonFactoryVars, environ, storeVars, argVars, provider_enum, api_key,
                 lookups, created, providers_to_try, fallback_result>>

\* create raised an exception the except clause does not name: it leaves
\* create_with_fallback
FallbackPropagate ==
  /\ fallback_pc = "create"
  /\ create_pc = "raised"
  /\ ~Caught(created.exc)
  /\ attempts' = Append(attempts, [provider |-> arg_provider, outcome |-> created])
  /\ fallback_result' = created
  /\ fallback_pc' = "raised"
  /\ create_pc' = "idle"
  /\ UNCHANGED <<nonFactoryVars, environ, storeVars, argVars, provider_enum, api_key,
                 lookups, created, providers_to_try, try_idx, last_error>>

\* the loop is exhausted:
\* raise APIKeyError("Failed to initialize any provider ... Last error: {last_error}")
FallbackExhausted ==
  /\ fallback_pc = "loop"
  /\ try_idx > Len(providers_to_try)
  /\ fallback_result' = [kind |-> "raised", exc |-> "APIKeyError", last |-> last_error]
  /\ fallback_pc' = "raised"
  /\ UNCHANGED <<nonFactoryVars, environ, storeVars, argVars, create_pc, provider_enum,
                 api_key, lookups, created, providers_to_try, try_idx, last_error,
                 attempts>>

FallbackNext ==
  \/ FallbackTry
  \/ CreateResolveProvider
  \/ CreateUnsupported
  \/ CreateExplicitKey
  \/ GetApiKeyEnviron
  \/ GetApiKeyKeyring
  \/ GetApiKeyDotenv
  \/ CreateKeyError
  \/ CreateKeyFound
  \/ CreateNoImplementation
  \/ ProviderKeyRequired
  \/ ProviderClientFails
  \/ CreateReturn
  \/ FallbackReturn
  \/ FallbackCatch
  \/ FallbackPropagate
  \/ FallbackExhausted

SpecFallback == FallbackInit /\ [][FallbackNext]_vars

\* ------------------------------------------- a provider's analyze_article
\* analyze_article(article_text, system_prompt) of one provider class is
\* followed from entry to return or raise.  The five classes have the same
\* body up to the provider name and the client call inside _call_api.
nonProviderVars ==
  <<consensusVars, factoryVars, estimateVars, cacheVars, flagVars>>

NonProviderIdle ==
  ConsensusIdle /\ FactoryIdle /\ EstimateIdle /\ CacheIdle /\ FlagIdle

ProviderInit ==
  /\ NonProviderIdle
  /\ prov_name \in LLMProviderValues
  /\ prov_text \in ArticleTexts
  /\ prov_pc = "start"
  /\ raw_response = NotCalled
  /\ api_calls = 0
  /\ prov_result = NoOutcome

\* if not article_text or not article_text.strip(): return AnalysisResult(sentences={}, ...)
ProviderShortCircuit ==
  /\ prov_pc = "start"
  /\ IsBlank(prov_text)
  /\ prov_result' = AnalysisResult(<<>>, prov_name)
  /\ prov_pc' = "returned"
  /\ UNCHANGED <<nonProviderVars, prov_name, prov_text, raw_response, api_calls>>

\* raw_response = self._call_api(article_text, system_prompt)
ProviderCallApi_unguarded ==
  /\ prov_pc = "start"
  /\ api_calls' = api_calls + 1
  /\ raw_response' \in RawResponses
  /\ prov_pc' = "parse"
  /\ UNCHANGED <<nonProviderVars, prov_name, prov_text, prov_result>>

ProviderCallApi ==
  /\ prov_pc = "start"
  /\ ~IsBlank(prov_text)
  /\ api_calls' = api_calls + 1
  /\ raw_response' \in RawResponses
  /\ prov_pc' = "parse"
  /\ UNCHANGED <<nonProviderVars, prov_name, prov_text, prov_result>>

\* _call_api raised LLMProviderError; analyze_article's except Exception
\* raises LLMProviderError again
ProviderCallApiFails ==
  /\ prov_pc = "start"
  /\ ~IsBlank(prov_text)
  /\ api_calls' = api_calls + 1
  /\ prov_result' = Raised("LLMProviderError")
  /\ prov_pc' = "raised"
  /\ UNCHANGED <<nonProviderVars, prov_name, prov_text, raw_response>>

\* sentences = self._parse_json_response(raw_response); return AnalysisResult(...)
ProviderParseOk ==
  /\ prov_pc = "parse"
  /\ ParseJsonResponse(raw_response).ok
  /\ prov_result' = AnalysisResult(ParseJsonResponse(raw_response).sentences, prov_name)
  /\ prov_pc' = "returned"
  /\ UNCHANGED <<nonProviderVars, prov_name, prov_text, raw_response, api_calls>>

\* _parse_json_response raised JSONParseError inside the try block:
\* except Exception as e: raise LLMProviderError(f"... analysis error: {e}")
ProviderParseFails ==
  /\ prov_pc = "parse"
  /\ ~ParseJsonResponse(raw_response).ok
  /\ prov_result' = Raised("LLMProviderError")
  /\ prov_pc' = "raised"
  /\ UNCHANGED <<nonProviderVars, prov_name, prov_text, raw_response, api_calls>>

ProviderNext ==
  \/ ProviderShortCircuit
  \/ ProviderCallApi
  \/ ProviderCallApiFails
  \/ ProviderParseOk
  \/ ProviderParseFails

SpecProvider == ProviderInit /\ [][ProviderNext]_vars

\* ------------------------------------------------ _estimate_tokens on its own
\* The settings object is built once, at the import of config
\* (settings = Settings()); validate_estimated_chars_per_token rejects a
\* value <= 0 there.  Afterwards the attribute may be assigned any value,
\* and _estimate_tokens reads it at each call.
nonEstimateVars ==
  <<consensusVars, factoryVars, providerVars, cacheVars, flagVars>>

NonEstimateIdle ==
  ConsensusIdle /\ FactoryIdle /\ ProviderIdle /\ CacheIdle /\ FlagIdle

EstimateInit ==
  /\ NonEstimateIdle
  /\ env_chars \in CharsPerTokenValues
  /\ setting_chars = NoInt
  /\ est_pc = "unloaded"
  /\ est_text \in EstimateTexts
  /\ est_result = NoOutcome

\* LLMSettings(): the field takes the environment's value, or the default 4
SettingsLoad ==
  /\ est_pc = "unloaded"
  /\ env_chars.present => env_chars.value > 0
  /\ setting_chars' = IF env_chars.present THEN env_chars ELSE SomeInt(4)
  /\ est_pc' = "loaded"
  /\ UNCHANGED <<nonEstimateVars, env_chars, est_text, est_result>>

\* validate_estimated_chars_per_token: if v <= 0: raise ValueError
SettingsLoadRejected ==
  /\ est_pc = "unloaded"
  /\ env_chars.present /\ env_chars.value <= 0
  /\ est_result' = Raised("ValidationError")
  /\ est_pc' = "load_failed"
  /\ UNCHANGED <<nonEstimateVars, env_chars, setting_chars, est_text>>

\* settings.llm.estimated_chars_per_token = v
SettingsAssign ==
  /\ est_pc = "loaded"
  /\ setting_chars' \in CharsPerTokenValues
  /\ setting_chars' # setting_chars
  /\ UNCHANGED <<nonEstimateVars, env_chars, est_pc, est_text, est_result>>

\* self._estimate_tokens(text)
EstimateCall ==
  /\ est_pc = "loaded"
  /\ est_result' = EstimateTokens(est_text, setting_chars)
  /\ est_pc' = "estimated"
  /\ UNCHANGED <<nonEstimateVars, env_chars, setting_chars, est_text>>

EstimateNext ==
  \/ SettingsLoad
  \/ SettingsLoadRejected
  \/ SettingsAssign
  \/ EstimateCall

SpecEstimate == EstimateInit /\ [][EstimateNext]_vars

\* -------------------------------------------------- CacheService on its own
\* One CacheService object over one Redis database.  Each call is one step.
\* An entry written with setex disappears when its ttl has run out.
nonCacheVars ==
  <<consensusVars, factoryVars, providerVars, estimateVars, flagVars>>

NonCacheIdle ==
  ConsensusIdle /\ FactoryIdle /\ ProviderIdle /\ EstimateIdle /\ FlagIdle

\* __init__: _enabled is settings.cache.enabled, and becomes False when
\* _connect_redis fails
CacheInit ==
  /\ NonCacheIdle
  /\ cache_enabled \in BOOLEAN
  /\ redis_store = [k \in CacheKeys |-> NoCacheEntry]
  /\ cache_sets = 0
  /\ last_set = NoneValue
  /\ last_get = NoGet

\* set_analysis_result: setex(cache_key, ttl, json.dumps(analysis_result))
CacheSet(url, providers_, value) ==
  /\ cache_sets < MaxCacheSets
  /\ cache_enabled
  /\ redis_store' = [redis_store EXCEPT ![GenerateCacheKey(url, providers_)] =
                       CacheEntry(url, providers_, value)]
  /\ cache_sets' = cache_sets + 1
  /\ last_set' = "True"
  /\ last_get' = NoGet
  /\ UNCHANGED <<nonCacheVars, cache_enabled>>

\* set_analysis_result: not enabled, or setex raised
CacheSetFails ==
  /\ cache_sets < MaxCacheSets
  /\ cache_sets' = cache_sets + 1
  /\ last_set' = "False"
  /\ last_get' = NoGet
  /\ UNCHANGED <<nonCacheVars, cache_enabled, redis_store>>

\* get_analysis_result: hit (json.loads of the held string) or miss (None)
CacheGet(url, providers_) ==
  /\ cache_enabled
  /\ LET held == redis_store[GenerateCacheKey(url, providers_)]
     IN  last_get' = GetReturned("read", url, providers_,
                       IF held.present THEN JsonLoadsCached(held.data)
                       ELSE NoneValue)
  /\ last_set' = NoneValue
  /\ UNCHANGED <<nonCacheVars, cache_enabled, redis_store, cache_sets>>

\* get_analysis_result: not enabled, or the Redis get raised
CacheGetFails(url, providers_) ==
  /\ last_get' = GetReturned(IF cache_enabled THEN "error" ELSE "disabled",
                             url, providers_, NoneValue)
  /\ last_set' = NoneValue
  /\ UNCHANGED <<nonCacheVars, cache_enabled, redis_store, cache_sets>>

\* the ttl of an entry runs out
CacheExpire(key) ==
  /\ redis_store[key].present
  /\ redis_store' = [redis_store EXCEPT ![key] = NoCacheEntry]
  /\ last_set' = NoneValue
  /\ last_get' = NoGet
  /\ UNCHANGED <<nonCacheVars, cache_enabled, cache_sets>>

\* invalidate(url, providers): delete(cache_key)
CacheInvalidate(url, providers_) ==
  /\ cache_enabled
  /\ redis_store[GenerateCacheKey(url, providers_)].present
  /\ redis_store' = [redis_store EXCEPT ![GenerateCacheKey(url, providers_)] =
                       NoCacheEntry]
  /\ last_set' = NoneValue
  /\ last_get' = NoGet
  /\ UNCHANGED <<nonCacheVars, cache_enabled, cache_sets>>

CacheNext ==
  \/ \E u \in CacheUrls, ps \in CacheProviderLists, v \in CacheValues :
       CacheSet(u, ps, v)
  \/ CacheSetFails
  \/ \E u \in CacheUrls, ps \in CacheProviderLists : CacheGet(u, ps)
  \/ \E u \in CacheUrls, ps \in CacheProviderLists : CacheGetFails(u, ps)
  \/ \E k \in CacheKeys : CacheExpire(k)
  \/ \E u \in CacheUrls, ps \in CacheProviderLists : CacheInvalidate(u, ps)

SpecCache == CacheInit /\ [][CacheNext]_vars

\* ------------------------------------------- FeatureFlagsService on its own
\* One FeatureFlagsService object (the module-level feature_flags_service
\* of server.py) used by two request threads.  Reading calls start with
\* _refresh_cache_if_needed; its test, its database load and its two
\* assignments are separate steps, as are the commit and the invalidation
\* of set_flag.
nonFlagVars ==
  <<consensusVars, factoryVars, providerVars, estimateVars, cacheVars>>

NonFlagIdle ==
  ConsensusIdle /\ FactoryIdle /\ ProviderIdle /\ EstimateIdle /\ CacheIdle

FlagInit ==
  /\ NonFlagIdle
  /\ db_flag \in FlagStates
  /\ flag_cache = "missing"
  /\ cache_timestamp = NoInt
  /\ clock = 0
  /\ th_pc = [t \in FlagThreads |-> "idle"]
  /\ th_call = [t \in FlagThreads |-> NoneValue]
  /\ th_now = [t \in FlagThreads |-> 0]
  /\ th_loaded = [t \in FlagThreads |-> "missing"]
  /\ th_returned = [t \in FlagThreads |-> NoneValue]
  /\ flag_set = NoneValue
  /\ flag_checked = NoneValue

AtRest(t) == th_pc[t] \in {"idle", "returned"}

\* time passes
Tick ==
  /\ clock < MaxClock
  /\ clock' = clock + 1
  /\ UNCHANGED <<nonFlagVars, db_flag, flag_cache, cache_timestamp, th_pc,
                 th_call, th_now, th_loaded, th_returned, flag_set, flag_checked>>

\* is_enabled -> _refresh_cache_if_needed: now = utcnow(); the test
\* `not self._cache_timestamp or (now - ts).total_seconds() > duration`
IsEnabledBegin(t) ==
  /\ AtRest(t)
  /\ th_call' = [th_call EXCEPT ![t] = "is_enabled"]
  /\ th_returned' = [th_returned EXCEPT ![t] = NoneValue]
  /\ th_now' = [th_now EXCEPT ![t] = clock]
  /\ th_pc' = [th_pc EXCEPT ![t] =
                 IF \/ ~cache_timestamp.present
                    \/ clock - cache_timestamp.value > CacheDuration
                 THEN "load" ELSE "lookup"]
  /\ IF t = "caller"
     THEN flag_checked' = flag_set /\ flag_set' = NoneValue
     ELSE UNCHANGED <<flag_set, flag_checked>>
  /\ UNCHANGED <<nonFlagVars, db_flag, flag_cache, cache_timestamp, clock,
                 th_loaded>>

\* _load_flags_from_db: the rows of the table
LoadFlags(t) ==
  /\ th_pc[t] = "load"
  /\ th_loaded' = [th_loaded EXCEPT ![t] = db_flag]
  /\ th_pc' = [th_pc EXCEPT ![t] = "store"]
  /\ UNCHANGED <<nonFlagVars, db_flag, flag_cache, cache_timestamp, clock,
                 th_call, th_now, th_returned, flag_set, flag_checked>>

\* _load_flags_from_db: the query raised; the empty dict is returned
LoadFlagsFails(t) ==
  /\ th_pc[t] = "load"
  /\ th_loaded' = [th_loaded EXCEPT ![t] = "missing"]
  /\ th_pc' = [th_pc EXCEPT ![t] = "store"]
  /\ UNCHANGED <<nonFlagVars, db_flag, flag_cache, cache_timestamp, clock,
                 th_call, th_now, th_returned, flag_set, flag_checked>>

\* self._cache = <loaded>; self._cache_timestamp = now
StoreCache(t) ==
  /\ th_pc[t] = "store"
  /\ flag_cache' = th_loaded[t]
  /\ cache_timestamp' = SomeInt(th_now[t])
  /\ th_pc' = [th_pc EXCEPT ![t] = "lookup"]
  /\ UNCHANGED <<nonFlagVars, db_flag, clock, th_call, th_now, th_loaded,
                 th_returned, flag_set, flag_checked>>

\* flag_data = self._cache.get(flag_name); return default or enabled
IsEnabledReturn(t) ==
  /\ th_pc[t] = "lookup"
  /\ th_returned' = [th_returned EXCEPT ![t] =
                       IF LookupEnabled(flag_cache) THEN "True" ELSE "False"]
  /\ th_pc' = [th_pc EXCEPT ![t] = "returned"]
  /\ UNCHANGED <<nonFlagVars, db_flag, flag_cache, cache_timestamp, clock,
                 th_call, th_now, th_loaded, flag_set, flag_checked>>

\* set_flag: repo.set_feature_flag(...) updates or adds the row and commits
SetFlagCommit(enabled) ==
  /\ AtRest("caller")
  /\ db_flag' = IF enabled THEN "on" ELSE "off"
  /\ th_call' = [th_call EXCEPT !["caller"] = "set_flag"]
  /\ th_returned' = [th_returned EXCEPT !["caller"] = NoneValue]
  /\ th_pc' = [th_pc EXCEPT !["caller"] = "committed"]
  /\ flag_set' = NoneValue
  /\ flag_checked' = NoneValue
  /\ UNCHANGED <<nonFlagVars, flag_cache, cache_timestamp, clock, th_now,
                 th_loaded>>

\* set_flag: the session raised; return False
SetFlagFails ==
  /\ AtRest("caller")
  /\ th_call' = [th_call EXCEPT !["caller"] = "set_flag"]
  /\ th_returned' = [th_returned EXCEPT !["caller"] = "False"]
  /\ th_pc' = [th_pc EXCEPT !["caller"] = "returned"]
  /\ flag_set' = NoneValue
  /\ flag_checked' = NoneValue
  /\ UNCHANGED <<nonFlagVars, db_flag, flag_cache, cache_timestamp, clock,
                 th_now, th_loaded>>

\* set_flag: self._cache_timestamp = None; return True
SetFlagInvalidate ==
  /\ th_pc["caller"] = "committed"
  /\ cache_timestamp' = NoInt
  /\ th_returned' = [th_returned EXCEPT !["caller"] = "True"]
  /\ th_pc' = [th_pc EXCEPT !["caller"] = "returned"]
  /\ flag_set' = IF db_flag = "on" THEN "True" ELSE "False"
  /\ UNCHANGED <<nonFlagVars, db_flag, flag_cache, clock, th_call, th_now,
                 th_loaded, flag_checked>>

FlagNext ==
  \/ Tick
  \/ \E t \in FlagThreads : IsEnabledBegin(t)
  \/ \E t \in FlagThreads : LoadFlags(t)
  \/ \E t \in FlagThreads : LoadFlagsFails(t)
  \/ \E t \in FlagThreads : StoreCache(t)
  \/ \E t \in FlagThreads : IsEnabledReturn(t)
  \/ \E enabled \in BOOLEAN : SetFlagCommit(enabled)
  \/ SetFlagFails
  \/ SetFlagInvalidate

SpecFlags == FlagInit /\ [][FlagNext]_vars

\* ================================================================= claims
\* analyze_article has returned a value
Returned == pc = "done"

\* analyze_article has returned and provider calls were dispatched in the run
ReturnedAfterDispatch == pc = "done" /\ futures # <<>>

ReasonKeys(e) == { e.reasons[j].provider : j \in 1..Len(e.reasons) }

OnlyWhitespace(text) == \A i \in 1..Len(text) : text[i] \in Whitespace

\* C1: every sentence entry of a returned result has
\* consensus_score = len(selected_by) = len(reasons)
C1_ScoreEqualsLengths ==
  Returned =>
    \A k \in 1..Len(result.sentences) :
      LET e == result.sentences[k] IN
        /\ e.consensus_score = Len(e.selected_by)
        /\ Len(e.selected_by) = Len(e.reasons)

\* C2: consensus_score counts distinct successful providers: no provider id
\* occurs twice in selected_by and the score never exceeds the number of
\* successful providers
C2_ScoreCountsDistinctProviders ==
  (Returned /\ result.success) =>
    \A k \in 1..Len(result.sentences) :
      LET e == result.sentences[k] IN
        /\ IsInjective(e.selected_by)
        /\ e.consensus_score = Cardinality(Range(e.selected_by))
        /\ e.consensus_score <= Len(result.successful_providers)

\* C3: consensus_level is determined by (consensus_score, total_successful):
\* n = 1: high; n = 2: high iff score = 2, otherwise low, never medium;
\* n >= 3: high iff score >= 3, medium iff score = 2, low otherwise
C3_LevelByTier ==
  (Returned /\ result.success) =>
    LET n == Len(result.successful_providers) IN
    \A k \in 1..Len(result.sentences) :
      LET score == result.sentences[k].consensus_score
          level == result.sentences[k].consensus_level
      IN  /\ level \in {"low", "medium", "high"}
          /\ n = 1 => level = "high"
          /\ n = 2 => /\ level # "medium"
                      /\ level = "high" <=> score = 2
          /\ n >= 3 => /\ level = "high" <=> score >= 3
                       /\ level = "medium" <=> score = 2

\* three providers succeeded and some sentence was selected by exactly two
C3_Witness ==
  /\ Returned /\ result.success
  /\ Len(result.successful_providers) = 3
  /\ \E k \in 1..Len(result.sentences) :
       /\ result.sentences[k].consensus_score = 2
       /\ result.sentences[k].consensus_level = "medium"

\* C4: the sentences of every returned result are non-increasing in
\* consensus_score
C4_SortedByScore ==
  Returned =>
    \A k \in 1..(Len(result.sentences) - 1) :
      result.sentences[k].consensus_score >= result.sentences[k + 1].consensus_score

\* the sentence first inserted into sentence_map is not the first of the result
C4_Witness ==
  /\ Returned /\ result.success
  /\ Len(result.sentences) >= 2
  /\ result.sentences[1].consensus_score > result.sentences[2].consensus_score
  /\ BuildSentenceMap(SelectSeq(results, LAMBDA r : r.success))[1].text
       # result.sentences[1].text

\* C5: every provider in a sentence's selected_by and every key of its reasons
\* is in successful_providers; a failed provider contributes to no sentence
C5_SelectedBySuccessful ==
  (Returned /\ result.success) =>
    \A k \in 1..Len(result.sentences) :
      LET e == result.sentences[k] IN
        /\ Range(e.selected_by) \subseteq Range(result.successful_providers)
        /\ ReasonKeys(e) \subseteq Range(result.successful_providers)
        /\ Range(e.selected_by) \cap Range(result.failed_providers) = {}
        /\ ReasonKeys(e) \cap Range(result.failed_providers) = {}

\* one provider failed, another one selected a sentence
C5_Witness ==
  /\ Returned /\ result.success
  /\ result.failed_providers # <<>>
  /\ result.sentences # <<>>

\* C6: a call that raises is a failed outcome of that provider only: every
\* other dispatched call has run to completion, each call has exactly one
\* outcome in results, and the successful outcomes are aggregated
C6_FailureIsolated ==
  ReturnedAfterDispatch =>
    /\ Len(results) = Len(futures)
    /\ \A i \in 1..Len(futures) :
         LET v == futures[i].value IN
           /\ futures[i].state = "finished"
           /\ callCount[futures[i].name] >= 1
           /\ Cardinality({ j \in 1..Len(results) : results[j].provider = futures[i].name }) = 1
           /\ \E j \in 1..Len(results) : results[j] = v
           /\ v.success =>
                /\ result.success
                /\ futures[i].name \in Range(result.successful_providers)
                /\ \A m \in 1..Len(v.sentences) :
                     \E k \in 1..Len(result.sentences) :
                       /\ result.sentences[k].text = Strip(v.sentences[m].sentence)
                       /\ futures[i].name \in Range(result.sentences[k].selected_by)
           /\ (~v.success /\ result.success) =>
                futures[i].name \in Range(result.failed_providers)

\* one call raised and another call's selection is in the result
C6_Witness ==
  /\ ReturnedAfterDispatch
  /\ \E i, j \in 1..Len(futures) :
       /\ ~futures[i].value.success
       /\ futures[j].value.success
       /\ futures[j].value.sentences # <<>>
  /\ result.success
  /\ result.sentences # <<>>

\* every requested provider failed, at construction or at call time
AllRequestedFailed ==
  \/ pc = "raised"
  \/ /\ ReturnedAfterDispatch
     /\ \A i \in 1..Len(futures) : ~futures[i].value.success

\* C7 (as stated): if every requested provider fails, at construction or at
\* call time, the outcome is a result with success = false and sentences = []
C7_AllFailGivesFailureResult ==
  AllRequestedFailed =>
    /\ result # NoResult
    /\ result.success = FALSE
    /\ result.sentences = <<>>

\* C7 (amended): if every dispatched provider fails at call time the returned
\* result has success = false and sentences = []; if no requested provider
\* can be constructed the constructor raises ValueError, analyze_article is
\* never entered and no result exists
C7_AllFailAmended ==
  /\ (ReturnedAfterDispatch /\ \A i \in 1..Len(futures) : ~futures[i].value.success) =>
       /\ result # NoResult
       /\ result.success = FALSE
       /\ result.sentences = <<>>
  /\ (initIdx > Len(providers) /\ llm_instances = <<>>) =>
       /\ pc \in {"init", "raised"}
       /\ result = NoResult
       /\ futures = <<>>
  /\ pc = "raised" => llm_instances = <<>>

\* two providers were dispatched and both raised
C7_Witness ==
  /\ ReturnedAfterDispatch
  /\ Len(futures) >= 2
  /\ \A i \in 1..Len(futures) : ~futures[i].value.success

\* C8: with an empty or whitespace-only article_text, analyze_article returns
\* success = false and sentences = [] and dispatches no provider call
C8_EmptyTextNoCall ==
  (article_text # NotCalled /\ OnlyWhitespace(article_text)) =>
    /\ pc = "done"
    /\ result.success = FALSE
    /\ result.sentences = <<>>
    /\ futures = <<>>
    /\ queue = <<>>
    /\ threads = 0
    /\ \A p \in RequestNames : callCount[p] = 0

\* analyze_article returned for a text of whitespace characters only
C8_Witness ==
  /\ Returned
  /\ article_text = <<"\n", " ">>
  /\ Len(llm_instances) >= 2

\* C9: aggregation starts and analyze_article returns only after every
\* dispatched call has returned or raised; no dispatched call is left unrun
C9_BarrierBeforeAggregation ==
  (pc \in {"aggregate", "done"} /\ ~OnlyWhitespace(article_text) /\ article_text # NoneText) =>
    /\ Len(futures) = Len(llm_instances)
    /\ queue = <<>>
    /\ Running = {}
    /\ \A i \in 1..Len(futures) :
         /\ futures[i].state = "finished"
         /\ callCount[futures[i].name] >= 1
    /\ Len(results) = Len(futures)

\* the barrier was passed with three calls dispatched
C9_Witness ==
  /\ pc = "aggregate"
  /\ Len(futures) = 3
  /\ \E i \in 1..3 : ~futures[i].value.success

\* C10: each constructed provider is called exactly once per run, also when
\* its identifier was requested twice; the pool has one worker per constructed
\* provider and a queued call always has a free worker
C10_OneCallPerProvider ==
  /\ \A p \in RequestNames : callCount[p] <= 1
  /\ ReturnedAfterDispatch =>
       \A p \in RequestNames :
         callCount[p] = IF p \in Range(llm_instances) THEN 1 ELSE 0
  /\ pc \in {"submit", "collect", "aggregate"} =>
       /\ max_workers = Cardinality(Range(llm_instances))
       /\ max_workers = Len(llm_instances)
  /\ threads <= max_workers
  /\ Len(queue) + Cardinality(Running) <= threads

\* a provider requested twice was constructed and the run has returned
C10_Witness ==
  /\ ReturnedAfterDispatch
  /\ ~IsInjective(providers)
  /\ \E i, j \in 1..Len(providers) :
       i # j /\ providers[i] = providers[j] /\ providers[i] \in Range(llm_instances)
  /\ Len(llm_instances) >= 2

\* identifiers for which some pass of the construction loop stored an instance
Constructed == { providers[i] : i \in { j \in 1..Len(init_log) : init_log[j] = "initialized" } }

\* requested identifiers every construction attempt of which failed or was skipped
NotConstructed == Range(SubSeq(providers, 1, Len(init_log))) \ Constructed

\* C11: an identifier whose construction fails is excluded from the attempt
\* set (never called, in no outcome list), and the other requested
\* identifiers are still constructed and attempted
C11_FailedConstructionExcluded ==
  /\ pc # "init" => Len(init_log) = Len(providers)
  /\ Range(llm_instances) = Constructed
  /\ \A p \in NotConstructed :
       /\ callCount[p] = 0
       /\ \A i \in 1..Len(futures) : futures[i].name # p
       /\ \A j \in 1..Len(results) : results[j].provider # p
       /\ (Returned /\ result.success) =>
            /\ p \notin Range(result.successful_providers)
            /\ p \notin Range(result.failed_providers)
  /\ ReturnedAfterDispatch =>
       \A p \in Constructed :
         /\ callCount[p] = 1
         /\ \E j \in 1..Len(results) : results[j].provider = p

\* construction of mistral failed, openai after it was constructed and called
C11_Witness ==
  /\ ReturnedAfterDispatch
  /\ result.success
  /\ providers = <<"gemini", "mistral", "openai">>
  /\ init_log = <<"initialized", "failed", "initialized">>
  /\ callCount["openai"] = 1
  /\ callCount["mistral"] = 0

\* C12: when no requested provider can be constructed the engine raises the
\* "No LLM providers initialized" error before any call is dispatched and
\* before any article text is looked at
C12_FailFastNoProviders ==
  (pc # "init" /\ \A i \in 1..Len(init_log) : init_log[i] # "initialized") =>
    /\ pc = "raised"
    /\ article_text = NotCalled
    /\ futures = <<>>
    /\ queue = <<>>
    /\ threads = 0
    /\ \A p \in RequestNames : callCount[p] = 0
    /\ result = NoResult

\* both construction attempts of a supported provider failed
C12_Witness ==
  /\ pc = "raised"
  /\ providers = <<"gemini", "gemini">>
  /\ init_log = <<"failed", "failed">>

Scores(sentences) == [k \in 1..Len(sentences) |-> sentences[k].consensus_score]

Triples(sentences) ==
  { <<sentences[k].text, sentences[k].consensus_score, sentences[k].consensus_level>> :
      k \in 1..Len(sentences) }

\* C13: for fixed provider responses every completion order gives the same
\* sequence of consensus_scores and the same set of (text, score, level)
C13_CompletionOrderIndependent ==
  ReturnedAfterDispatch =>
    \A other \in Perms(results) :
      LET r2 == CalculateConsensus(other, Len(llm_instances)) IN
        /\ r2.success = result.success
        /\ Scores(r2.sentences) = Scores(result.sentences)
        /\ Triples(r2.sentences) = Triples(result.sentences)

\* another completion order gives a different list (equal scores swapped)
C13_Witness ==
  /\ ReturnedAfterDispatch
  /\ result.success
  /\ Len(results) >= 2
  /\ \E other \in Perms(results) :
       LET r2 == CalculateConsensus(other, Len(llm_instances)) IN
         /\ [k \in 1..Len(r2.sentences) |-> r2.sentences[k].text]
              # [k \in 1..Len(result.sentences) |-> result.sentences[k].text]
         /\ Scores(r2.sentences) = Scores(result.sentences)

\* the scenario of C14: S1 = "A", S2 = "B"
GeminiScenarioResponse ==
  << [sentence |-> <<"A">>, reason |-> <<"gemini", <<"A">>>>],
     [sentence |-> <<"B">>, reason |-> <<"gemini", <<"B">>>>] >>

MistralScenarioResponse ==
  << [sentence |-> <<"A">>, reason |-> <<"mistral", <<"A">>>>] >>

ScenarioC14 ==
  /\ ReturnedAfterDispatch
  /\ providers = <<"gemini", "mistral">>
  /\ llm_instances = <<"gemini", "mistral">>
  /\ futures[1].value = SuccessOutcome("gemini", TRUE, GeminiScenarioResponse)
  /\ futures[2].value = SuccessOutcome("mistral", TRUE, MistralScenarioResponse)

ReasonMap(e) == { <<e.reasons[j].provider, e.reasons[j].reason>> : j \in 1..Len(e.reasons) }

\* the parts of the scenario's result that do not name an order of providers
ScenarioSentencesC14 ==
  /\ result.success
  /\ Len(result.sentences) = 2
  /\ LET s1 == result.sentences[1]
         s2 == result.sentences[2]
     IN  /\ s1.text = <<"A">>
         /\ s1.consensus_score = 2
         /\ s1.consensus_level = "high"
         /\ Len(s1.reasons) = 2
         /\ ReasonMap(s1) = { <<"gemini", <<"gemini", <<"A">>>>>>,
                              <<"mistral", <<"mistral", <<"A">>>>>> }
         /\ s2.text = <<"B">>
         /\ s2.consensus_score = 1
         /\ s2.consensus_level = "low"
         /\ s2.selected_by = <<"gemini">>
         /\ Len(s2.reasons) = 1
         /\ ReasonMap(s2) = { <<"gemini", <<"gemini", <<"B">>>>>> }

\* C14 (as stated): in the scenario the result is the listed one, with
\* successful_providers = [gemini, mistral] and S1 selected_by
\* [gemini, mistral], whichever call completes first
C14_ScenarioAnyOrder ==
  ScenarioC14 =>
    /\ ScenarioSentencesC14
    /\ result.successful_providers = <<"gemini", "mistral">>
    /\ result.sentences[1].selected_by = <<"gemini", "mistral">>

\* C14 (amended): texts, scores, levels, reasons and S2's selected_by are the
\* listed ones in either order; successful_providers and S1's selected_by
\* list gemini and mistral in the order in which the calls were collected
C14_ScenarioCollectionOrder ==
  ScenarioC14 =>
    /\ ScenarioSentencesC14
    /\ result.successful_providers = ProvidersOf(results)
    /\ result.sentences[1].selected_by = ProvidersOf(results)
    /\ Range(result.successful_providers) = {"gemini", "mistral"}
    /\ results[1].provider = "gemini" =>
         result.successful_providers = <<"gemini", "mistral">>

\* the scenario with mistral's call collected first
C14_Witness ==
  /\ ScenarioC14
  /\ results[1].provider = "mistral"

\* C15: two dispatched, exactly one raises: the failing one is in
\* failed_providers and in no selected_by, and every sentence of the survivor
\* has consensus_score 1 and consensus_level high
C15_SurvivorScoresOne ==
  (/\ ReturnedAfterDispatch
   /\ Len(futures) = 2
   /\ Cardinality({ i \in 1..2 : ~futures[i].value.success }) = 1) =>
    /\ result.success
    /\ \A i \in 1..2 :
         ~futures[i].value.success =>
           /\ futures[i].name \in Range(result.failed_providers)
           /\ \A k \in 1..Len(result.sentences) :
                futures[i].name \notin Range(result.sentences[k].selected_by)
    /\ \A k \in 1..Len(result.sentences) :
         /\ result.sentences[k].consensus_score = 1
         /\ result.sentences[k].consensus_level = "high"

\* position of the run in INIT, PROVIDERS_CONSTRUCTED, DISPATCHED, COLLECTING,
\* AGGREGATED (the ValueError of the constructor ends the run in INIT)
Phase(at) ==
  CASE at = "init" -> 1
    [] at = "raised" -> 1
    [] at = "ready" -> 2
    [] at = "submit" -> 3
    [] at = "collect" -> 4
    [] at = "aggregate" -> 5
    [] at = "done" -> 5

\* what AGGREGATED carries once analyze_article has returned
AggregatedOutcome ==
  Returned =>
    /\ result # NoResult
    /\ result.success <=> \E i \in 1..Len(futures) : futures[i].value.success
    /\ ~result.success <=>
         (\/ OnlyWhitespace(article_text)
          \/ article_text = NoneText
          \/ \A i \in 1..Len(futures) : ~futures[i].value.success)

\* C17: a run only moves forward through the five states, nothing is
\* constructed or dispatched after AGGREGATED, and AGGREGATED carries success
\* iff at least one provider succeeded
C17_ForwardOnly ==
  [][ /\ Phase(pc') >= Phase(pc)
      /\ pc = "done" => UNCHANGED <<llm_instances, init_log, futures, callCount, result>>
      /\ AggregatedOutcome' ]_vars

\* AGGREGATED reached with one provider failed and one succeeded
C17_Witness ==
  /\ Returned
  /\ result.success
  /\ Len(futures) >= 2
  /\ \E i \in 1..Len(futures) : ~futures[i].value.success

\* C18: every dispatched provider whose call failed is in failed_providers of
\* the returned result, also when every dispatched provider failed
C18_FailedProvidersRecorded ==
  ReturnedAfterDispatch =>
    \A i \in 1..Len(futures) :
      ~futures[i].value.success =>
        /\ "failed_providers" \in DOMAIN result
        /\ futures[i].name \in Range(result.failed_providers)

\* the text between the first and the last non-whitespace character
Core(text) ==
  LET idx == { i \in 1..Len(text) : text[i] \notin Whitespace } IN
    IF idx = {} THEN <<>>
    ELSE SubSeq(text, CHOOSE i \in idx : \A j \in idx : i <= j,
                      CHOOSE i \in idx : \A j \in idx : i >= j)

\* raw keys of provider p in `results` whose trimmed text is `text`
KeysWithCore(p, text) ==
  { <<j, m>> \in (1..Len(results)) \X (1..MaxSel + 1) :
      /\ results[j].provider = p
      /\ results[j].success
      /\ m <= Len(results[j].sentences)
      /\ Core(results[j].sentences[m].sentence) = text }

Occurrences(seq, x) == Cardinality({ i \in 1..Len(seq) : seq[i] = x })

\* C16: normalization is trim-only and idempotent: selections end up in the
\* same entry iff their texts are identical after trimming (case and inner
\* whitespace kept), and normalizing a normalized text changes nothing
C16_TrimOnlyMerge ==
  (ReturnedAfterDispatch /\ result.success) =>
    /\ \A k, l \in 1..Len(result.sentences) :
         result.sentences[k].text = result.sentences[l].text => k = l
    /\ \A k \in 1..Len(result.sentences) :
         LET e == result.sentences[k] IN
           /\ NormalizeSentence(e.text) = e.text
           /\ \A p \in Range(llm_instances) :
                Occurrences(e.selected_by, p) = Cardinality(KeysWithCore(p, e.text))
    /\ \A j \in 1..Len(results) : \A m \in 1..Len(results[j].sentences) :
         /\ NormalizeSentence(NormalizeSentence(results[j].sentences[m].sentence))
              = NormalizeSentence(results[j].sentences[m].sentence)
         /\ results[j].success =>
              \E k \in 1..Len(result.sentences) :
                result.sentences[k].text = Core(results[j].sentences[m].sentence)

\* "A b" and " A b\n" were merged, "a b" was kept apart
C16_Witness ==
  /\ ReturnedAfterDispatch /\ result.success
  /\ \E k, l \in 1..Len(result.sentences) :
       /\ result.sentences[k].text = <<"A", " ", "b">>
       /\ result.sentences[k].selected_by = <<"gemini", "mistral">>
       /\ ReasonMap(result.sentences[k]) =
            { <<"gemini", <<"gemini", <<" ", "A", " ", "b", "\n">>>>>>,
              <<"mistral", <<"mistral", <<"A", " ", "b">>>>>> }
       /\ result.sentences[l].text = <<"a", " ", "b">>
       /\ result.sentences[l].consensus_score = 1

\* ------------------------------------------------------ LLMFactory.create
CreateFinished == create_pc \in {"returned", "raised"}

KnownIdentifier == Lower(EffectiveProvider) \in LLMProviderValues

\* what each secret source holds for the requested provider, in the order
\* explicit parameter, environment variable, keyring, .env file.  load_dotenv
\* copies the file's value into an unset environment variable, so a value
\* that was in the file only is read here from both the last source and the
\* second: whether a source is empty, and the first non-empty value, are the
\* same before and after the call.
SecretSources ==
  LET name == Lower(EffectiveProvider) IN
  << arg_api_key,
     environ[KeyName(name)],
     IF keyring.backend = "ok" THEN keyring.passwords[Username(name)] ELSE NoneValue,
     IF dotenv.state = "file" THEN dotenv.values[KeyName(name)] ELSE NoneValue >>

NoSecretResolvable == \A i \in 1..Len(SecretSources) : ~Truthy(SecretSources[i])

FirstNonEmpty(sources) ==
  IF \A i \in 1..Len(sources) : ~Truthy(sources[i]) THEN NoneValue
  ELSE sources[CHOOSE i \in 1..Len(sources) :
                 /\ Truthy(sources[i])
                 /\ \A j \in 1..(i - 1) : ~Truthy(sources[j])]

\* C19: LLMFactory.create raises UnsupportedProviderError for every
\* identifier that is not a known provider and APIKeyError whenever no
\* source holds a non-empty secret for a known provider; neither call yields
\* an instance, and no secret store is read before the identifier is known
\* to be a provider.
C19_CreateErrors ==
  /\ lookups # <<>> => provider_enum \in LLMProviderValues
  /\ CreateFinished =>
       /\ ~KnownIdentifier =>
            /\ created = Raised("UnsupportedProviderError")
            /\ lookups = <<>>
       /\ (KnownIdentifier /\ NoSecretResolvable) =>
            created = Raised("APIKeyError")

\* the secret stores were read in the order environment, keyring, .env
LookupsInOrder ==
  \E keep \in SUBSET {"environ", "keyring", "dotenv"} :
     lookups = SelectSeq(<<"environ", "keyring", "dotenv">>, LAMBDA x : x \in keep)

\* C20: the secret create works with is the first non-empty value among the
\* explicit api_key parameter, the environment variable, the keyring and the
\* .env file, in this order; an empty value of an earlier source, the
\* explicit parameter included, falls through to the next source.
C20_FirstNonEmptySource ==
  /\ LookupsInOrder
  /\ (create_pc \in {"config", "returned", "raised"} /\ KnownIdentifier
      /\ ~NoSecretResolvable) =>
       /\ api_key = FirstNonEmpty(SecretSources)
       /\ created # Raised("APIKeyError")

\* ------------------------------------------------- create_with_fallback
FallbackFinished == fallback_pc \in {"returned", "raised"}

AttemptFailed(a) == a.outcome.kind = "raised"

\* C21: create_with_fallback tries the primary provider and then each
\* fallback in list order, returns the first provider that constructs, moves
\* on to the next provider whenever construction of the current one fails,
\* and raises an error carrying the last failure only after every provider
\* of the list has been tried.
C21_FallbackChain ==
  /\ Len(attempts) <= Len(providers_to_try)
  /\ \A i \in 1..Len(attempts) : attempts[i].provider = providers_to_try[i]
  /\ \A i \in 1..(Len(attempts) - 1) : AttemptFailed(attempts[i])
  /\ fallback_pc = "returned" =>
       /\ attempts # <<>>
       /\ attempts[Len(attempts)].outcome.kind = "instance"
       /\ fallback_result = attempts[Len(attempts)].outcome
  /\ fallback_pc = "raised" =>
       /\ Len(attempts) = Len(providers_to_try)
       /\ \A i \in 1..Len(attempts) : AttemptFailed(attempts[i])
       /\ fallback_result =
            [kind |-> "raised", exc |-> "APIKeyError",
             last |-> [exc |-> attempts[Len(attempts)].outcome.exc,
                       provider |-> attempts[Len(attempts)].provider]]

\* ------------------------------------------------ provider analyze_article
ProviderFinished == prov_pc \in {"returned", "raised"}

\* C22: for every provider implementation, analyze_article with an empty or
\* whitespace-only article_text returns an AnalysisResult with no sentences
\* and makes no remote API call.
C22_BlankTextNoRemoteCall ==
  (prov_pc # "idle" /\ (prov_text = <<>> \/ OnlyWhitespace(prov_text))) =>
    /\ api_calls = 0
    /\ raw_response = NotCalled
    /\ prov_pc \in {"start", "returned"}
    /\ prov_pc = "returned" => prov_result = AnalysisResult(<<>>, prov_name)

\* the llama implementation returned on a whitespace-only text
C22_Witness ==
  /\ prov_pc = "returned"
  /\ prov_text = <<"\n", " ">>
  /\ prov_name = "llama"
  /\ prov_result.sentences = <<>>

\* the responses that are, once the fence is removed, a JSON object whose
\* keys and values are all strings
ValidMappings ==
  { <<"{", "\"A\"", ":", "\"r\"", "}">>,
    <<"{", "\"A\"", ":", "\"r\"", ",", "\"B\"", ":", "\"r\"", "}">>,
    <<" ", "{", "}", "\n">>,
    <<Fence, "json", "\n", "{", "\"A\"", ":", "\"r\"", "}", "\n", Fence>>,
    <<Fence, "\n", "{", "\"B\"", ":", "\"r\"", "}", "\n", Fence>> }

\* C23: whenever the remote call succeeded and the fence-stripped response is
\* not a JSON object of strings, analyze_article fails with JSONParseError
\* and no other kind of error, and yields no AnalysisResult.
C23_InvalidPayloadIsJSONParseError ==
  (ProviderFinished /\ raw_response # NotCalled /\ raw_response \notin ValidMappings) =>
    prov_result = Raised("JSONParseError")

\* ------------------------------------------------------- _estimate_tokens
\* the divisor the estimate is to use: the configured value when it is a
\* positive integer, 4 when it is missing, zero or negative
ExpectedCharsPerToken ==
  IF setting_chars.present /\ setting_chars.value > 0 THEN setting_chars.value ELSE 4

TimesIn(x, list) == Cardinality({ i \in 1..Len(list) : list[i] = x })

\* the two lists are orderings of one another
SameListReordered(l1, l2) ==
  \A x \in Range(l1) \cup Range(l2) : TimesIn(x, l1) = TimesIn(x, l2)

\* the get that has just returned read what a live entry, written for the
\* same URL and for a provider list related to the get's list, holds
GetSeesEntriesRelatedBy(Related(_, _)) ==
  last_get.outcome = "read" =>
    \A k \in CacheKeys :
      ( /\ redis_store[k].present
        /\ redis_store[k].url = last_get.url
        /\ Related(redis_store[k].providers, last_get.providers) )
      => last_get.value = JsonLoadsCached(redis_store[k].data)

SameProviderSet(l1, l2) == Range(l1) = Range(l2)

\* C25 as stated: the key depends only on the URL and the set of requested
\* providers, so a get for a list with the same set of providers returns the
\* stored result.
C25_KeyDependsOnProviderSet ==
  /\ \A u \in CacheUrls : \A l1, l2 \in CacheProviderLists :
       SameProviderSet(l1, l2) => GenerateCacheKey(u, l1) = GenerateCacheKey(u, l2)
  /\ GetSeesEntriesRelatedBy(SameProviderSet)

\* C25, amended: the key depends only on the URL and the sorted provider
\* list; two orderings of the same list give the same key, so a get that
\* reads the cache returns the live entry stored for any other ordering.
C25_KeyDependsOnSortedList ==
  /\ \A u \in CacheUrls : \A l1, l2 \in CacheProviderLists :
       SameListReordered(l1, l2) => GenerateCacheKey(u, l1) = GenerateCacheKey(u, l2)
  /\ GetSeesEntriesRelatedBy(SameListReordered)

\* a result stored for [openai, gemini, mistral] has just been returned by a
\* get for [gemini, mistral, openai]
C25_Witness ==
  /\ last_get.outcome = "read"
  /\ last_get.providers = <<"gemini", "mistral", "openai">>
  /\ last_get.value = "result-2"
  /\ \E k \in CacheKeys :
       /\ redis_store[k].present
       /\ redis_store[k].url = last_get.url
       /\ redis_store[k].providers = <<"openai", "gemini", "mistral">>

\* ------------------------------------------------------------ feature flags
\* C26: after set_flag(name, v) has returned True, the next is_enabled(name)
\* on the same instance returns v, whether or not the cache had expired; the
\* same holds for every later set_flag and the read that follows it.
C26_ReadAfterSetFlag ==
  ( /\ th_pc["caller"] = "returned"
    /\ th_call["caller"] = "is_enabled"
    /\ flag_checked # NoneValue )
  => th_returned["caller"] = flag_checked

\* -------------------------------------------------- shape of a success result
\* analyze_article has returned a result with success = True
ReturnedSuccess == Returned /\ result # NoResult /\ result.success

\* C27: in every successful result successful_providers and failed_providers
\* are disjoint and duplicate-free and together are exactly the constructed
\* providers; total_providers is the sum of their lengths and count is the
\* number of sentence entries.
C27_ProviderPartition ==
  ReturnedSuccess =>
    /\ Range(result.successful_providers) \cap Range(result.failed_providers) = {}
    /\ IsInjective(result.successful_providers)
    /\ IsInjective(result.failed_providers)
    /\ Range(result.successful_providers) \cup Range(result.failed_providers)
         = Range(llm_instances)
    /\ result.total_providers
         = Len(result.successful_providers) + Len(result.failed_providers)
    /\ result.count = Len(result.sentences)

\* a success result of three constructed providers with one failed provider
\* and two sentence entries
C27_Witness ==
  /\ ReturnedSuccess
  /\ Len(llm_instances) = 3
  /\ Len(result.failed_providers) = 1
  /\ Len(result.successful_providers) = 2
  /\ result.count = 2

\* the trimmed raw keys of the responses of the providers listed as successful
TrimmedKeysOfSuccessful ==
  { Core(futures[i].value.sentences[m].sentence) :
      <<i, m>> \in { <<i, m>> \in (1..Len(futures)) \X (1..MaxSel + 1) :
                       /\ futures[i].name \in Range(result.successful_providers)
                       /\ m <= Len(futures[i].value.sentences) } }

\* C28: in every successful result the texts are pairwise distinct and the
\* set of texts is the union, over the successful providers, of the trimmed
\* keys of their responses.
C28_TextsAreTrimmedKeys ==
  ReturnedSuccess =>
    /\ IsInjective([k \in 1..Len(result.sentences) |-> result.sentences[k].text])
    /\ { result.sentences[k].text : k \in 1..Len(result.sentences) }
         = TrimmedKeysOfSuccessful

\* two successful providers whose keys "A" and " A\n" share an entry while
\* "B", chosen by the second provider only, has its own
C28_Witness ==
  /\ ReturnedSuccess
  /\ Len(result.successful_providers) = 2
  /\ { result.sentences[k].text : k \in 1..Len(result.sentences) }
       = { <<"A">>, <<"B">> }
  /\ \E i, j \in 1..Len(futures) :
       /\ futures[i].name = result.successful_providers[1]
       /\ futures[j].name = result.successful_providers[2]
       /\ futures[i].value.sentences
            = <<[sentence |-> <<"A">>, reason |-> <<futures[i].name, <<"A">>>>]>>
       /\ Len(futures[j].value.sentences) = 2
       /\ futures[j].value.sentences[1].sentence = <<" ", "A", "\n">>
       /\ futures[j].value.sentences[2].sentence = <<"B">>

\* C29: a provider is in successful_providers only if its call returned a
\* sentence-to-reason mapping; a call that returned any other kind of value
\* is in failed_providers and is not counted in the total the tiers are
\* computed from.
C29_NonMappingIsFailure ==
  ReturnedSuccess =>
    /\ \A i \in 1..Len(futures) :
         /\ futures[i].name \in Range(result.successful_providers)
              => futures[i].returned = "dict"
         /\ futures[i].returned = "other"
              => futures[i].name \in Range(result.failed_providers)
    /\ \A k \in 1..Len(result.sentences) :
         result.sentences[k].consensus_level =
           ConsensusLevel(result.sentences[k].consensus_score,
                          Cardinality({ i \in 1..Len(futures) :
                                          futures[i].returned = "dict" }))

\* ------------------------------------------------------------- termination
\* no dispatched call runs forever: each one eventually returns or raises
EveryCallEnds ==
  \A i \in 1..2 : []<>(i \notin Running)

\* C30: if every dispatched call eventually returns or raises,
\* analyze_article eventually returns, and its result is set once; and
\* analyze_article does not return while a dispatched call has not ended
\* (there is no timeout in the orchestrator).
C30_ReturnsIffCallsEnd ==
  /\ EveryCallEnds => ((pc = "submit") ~> (pc = "done"))
  /\ \A i \in 1..2 : <>[](i \in Running) => [](pc # "done")
  /\ [](ReturnedAfterDispatch =>
          /\ Len(futures) = Len(llm_instances)
          /\ \A i \in 1..Len(futures) : futures[i].state = "finished")
  /\ [][result # NoResult => result' = result]_vars

\* analyze_article returned after one call raised and the other returned a
\* value that is not a dict
C30_Witness ==
  /\ ReturnedAfterDispatch
  /\ Len(futures) = 2
  /\ futures[1].returned = "raised"
  /\ futures[2].returned = "other"
  /\ result # NoResult

====
